---- MODULE Spec2Model ----
(***************************************************************************)
(* Model of the kubernetes-network-driver node agent:                      *)
(*   - the namespace device mover (hostdevice.MoveLinkIn / MoveLinkOut,    *)
(*     nri.moveLinkIn / moveLinkOut and their inject / release wrappers),  *)
(*   - the allocation stores (dra.storage),                                *)
(*   - the DRA handlers nodePrepareResource / nodeUnprepareResource,       *)
(*   - the NRI handlers RunPodSandbox / StopPodSandbox.                    *)
(* Every netlink call can fail, either because the kernel state forbids it *)
(* (no such link in the namespace the thread is in, name already taken) or *)
(* because the environment makes it fail (a fault label drawn as input).   *)
(***************************************************************************)
EXTENDS Integers, Sequences, FiniteSets, TLC

VARIABLES
    links,              \* kernel: link -> [ns, index, name, alias, up]
    rdma,               \* kernel: link index -> namespace of its RDMA companion ("" = none)
    claimAllocations,   \* NetworkPlugin.claimAllocations.cache
    podAllocations,     \* NetworkPlugin.podAllocations.cache
    mv,                 \* history: the last inject / release call and its outcome
    rpc,                \* history: the last DRA / NRI handler call and its outcome
    faulty,             \* number of calls so far in which the environment injected a fault
    mu,                 \* storage.mu of podAllocations: the writer and the readers holding it
    callers,            \* goroutine -> the storage method it is in and where
    written,            \* history: podAllocations.cache as of the completed writes
    claimsMu,           \* storage.mu of claimAllocations
    tasks,              \* goroutine -> the handler it runs and the instruction it is at
    ifaces,             \* host: the interfaces net.Interfaces() lists in the root namespace
    routes,             \* host: what netlink.RouteList returns, in its order
    ifaceGw,            \* NetworkPlugin.ifaceGw
    nlChannel,          \* link updates the subscription has not handed to the loop yet
    publisher,          \* the goroutine of PublishResources: where it is, what it computed
    published,          \* the devices of the last draPlugin.PublishResources call
    start,              \* Start: where it is, the registration status, the context
    movers              \* goroutine -> the MoveLinkIn / MoveLinkOut it runs, call by call

storeVars == <<mu, callers, written, claimsMu, tasks>>
discVars == <<ifaces, routes, ifaceGw, nlChannel, publisher, published, start>>
vars == <<links, rdma, claimAllocations, podAllocations, mv, rpc, faulty, mu, callers, written,
          claimsMu, tasks,
          ifaces, routes, ifaceGw, nlChannel, publisher, published, start, movers>>

----------------------------------------------------------------------------
(* Bounds *)

NumLinks == 2           \* host interfaces net1..netN
NumPods == 1            \* workloads pod1..podN, each with its own network namespace
MaxRollbackFaults == 1  \* environment faults injected into rollback calls of one move
MaxFaultyCalls == 1     \* calls in which the environment injects faults, per run
MaxBatch == 2           \* claims in one NodePrepareResources / NodeUnprepareResources request
NumGoroutines == 2      \* goroutines calling the methods of one storage concurrently
MaxPending == 3         \* link updates waiting to be handed to the loop of PublishResources
NumMovers == 2          \* goroutines running MoveLinkIn / MoveLinkOut at the same time
MaxPolls == 3           \* runs of the registration poll before its timeout (30 in the code)

----------------------------------------------------------------------------
(* Universe *)

Links == 1..NumLinks
Pods == 1..NumPods

Root == "root"
HostName(i) == "net" \o ToString(i)
HostNames == {HostName(i) : i \in Links}
NsPath(p) == "/run/netns/pod" \o ToString(p)
NsPaths == {NsPath(p) : p \in Pods}
PodUID(p) == "pod" \o ToString(p)
PodUIDs == {PodUID(p) : p \in Pods}

\* interface names a caller may ask for inside the pod (netdevice.NewName)
NewNames == HostNames \cup {"eth0"}

----------------------------------------------------------------------------
(* dra.storage: a map guarded by a sync.RWMutex *)

DriverName == "networking.k8s.io/dra"

\* resourceapi.AllocationResult.Devices: results and config, in their order
Result(request, device) == [request |-> request, pool |-> "node1", device |-> device]
Config(opaque, driver, requests) == [opaque |-> opaque, driver |-> driver, requests |-> requests]

EmptyAllocation == [results |-> << >>, config |-> << >>]
EmptyCache == [u \in {} |-> EmptyAllocation]

\* mutant of Add: an allocation stored twice under a key accumulates
Add_Accumulates(cache, uid, allocation) ==
    [u \in DOMAIN cache \cup {uid} |->
        IF u # uid THEN cache[u]
        ELSE IF uid \in DOMAIN cache
             THEN [results |-> cache[uid].results \o allocation.results,
                   config |-> cache[uid].config \o allocation.config]
             ELSE allocation]

Add(cache, uid, allocation) ==
    [u \in DOMAIN cache \cup {uid} |-> IF u = uid THEN allocation ELSE cache[u]]

Get(cache, uid) ==
    [allocation |-> IF uid \in DOMAIN cache THEN cache[uid] ELSE EmptyAllocation,
     ok |-> uid \in DOMAIN cache]

Remove(cache, uid) == [u \in DOMAIN cache \ {uid} |-> cache[u]]

\* sync.RWMutex: w is the goroutine holding the write lock (0 = none), r the
\* goroutines holding the read lock
Goroutines == 1..NumGoroutines
Unlocked == [w |-> 0, r |-> {}]

\* mu.Lock() returns once no goroutine holds the lock
CanLock(m) == m.w = 0 /\ m.r = {}

\* mutant of CanRLock: a reader does not wait for the writer
CanRLock_IgnoresWriter(m) == TRUE

\* mu.RLock() returns once no goroutine holds the write lock
CanRLock(m) == m.w = 0

\* a goroutine outside the storage; out is what its last Get returned
NoResult == [allocation |-> EmptyAllocation, ok |-> FALSE]
Idle == [pc |-> "idle", op |-> "none", uid |-> "", allocation |-> EmptyAllocation,
         out |-> NoResult]

\* a goroutine that runs no handler
NoTask == [handler |-> "none", at |-> 0, calling |-> FALSE, claim |-> "", uid |-> "",
           allocation |-> EmptyAllocation, out |-> NoResult]

\* s.cache[uid] = allocation is not one store: the value is a struct of
\* several words, and a goroutine reading it without the lock can see the
\* words already written next to the ones not written yet
HalfWritten(allocation) == [results |-> allocation.results, config |-> << >>]

----------------------------------------------------------------------------
(* The host as PublishResources sees it: interfaces, routes, link updates *)

\* interface names, letter by letter: validation looks at the characters
Eth0 == <<"e", "t", "h", "0">>
Net1 == <<"n", "e", "t", "1">>

\* net.Interface with what the loop reads of it: the name, FlagLoopback, and
\* whether netlink.LinkByName returns a *netlink.Veth; the last one is a
\* VLAN interface, eth0.5
HostInterfaces ==
    { [name |-> Eth0, loopback |-> FALSE, veth |-> FALSE],
      [name |-> <<"l", "o">>, loopback |-> TRUE, veth |-> FALSE],
      [name |-> Net1, loopback |-> FALSE, veth |-> FALSE],
      [name |-> <<"n", "e", "t", "2">>, loopback |-> FALSE, veth |-> FALSE],
      [name |-> <<"v", "e", "t", "h", "1">>, loopback |-> FALSE, veth |-> TRUE],
      [name |-> <<"e", "t", "h", "0", ".", "5">>, loopback |-> FALSE, veth |-> FALSE] }
Names(ifs) == {i.name : i \in ifs}

\* validation.IsDNS1123Label(name) returns no error: at most 63 characters,
\* lower case alphanumerics or '-', alphanumeric at both ends
Alphanumeric ==
    {"a", "b", "c", "d", "e", "f", "g", "h", "i", "j", "k", "l", "m", "n", "o", "p", "q",
     "r", "s", "t", "u", "v", "w", "x", "y", "z",
     "0", "1", "2", "3", "4", "5", "6", "7", "8", "9"}
IsDNS1123Label(name) ==
    /\ Len(name) > 0 /\ Len(name) <= 63
    /\ \A n \in 1..Len(name) : name[n] \in Alphanumeric \cup {"-"}
    /\ name[1] \in Alphanumeric /\ name[Len(name)] \in Alphanumeric

\* what netlink.RouteList can return, the default route first as the kernel
\* lists it; of a netlink.Route: whether Dst is nil (the default route),
\* whether Gw is set (the last table has a default route without a gateway,
\* "default dev eth0"), the interface of LinkIndex
RouteTables ==
    { << [default |-> TRUE, gw |-> TRUE, link |-> Eth0] >>,
      << [default |-> TRUE, gw |-> TRUE, link |-> Net1] >>,
      << [default |-> TRUE, gw |-> TRUE, link |-> Eth0],
         [default |-> FALSE, gw |-> TRUE, link |-> Net1] >>,
      << [default |-> TRUE, gw |-> FALSE, link |-> Eth0],
         [default |-> FALSE, gw |-> TRUE, link |-> Net1] >> }

\* getDefaultGwIf: the interface of the first route that has a gateway and
\* whose link is found; an error when there is none
RECURSIVE getDefaultGwIf(_, _, _)
getDefaultGwIf(rs, ifs, n) ==
    IF n > Len(rs) THEN [name |-> << >>, ok |-> FALSE]
    ELSE IF ~rs[n].gw THEN getDefaultGwIf(rs, ifs, n + 1)
    ELSE IF rs[n].link \notin Names(ifs) THEN getDefaultGwIf(rs, ifs, n + 1)
    ELSE [name |-> rs[n].link, ok |-> TRUE]

\* nlChannel := make(chan netlink.LinkUpdate): the capacity of the channel
NlChannelCap == 0

\* len(nlChannel): the elements queued in the buffer of the channel, when
\* pending updates wait to be handed over
ChannelLen(pending) == IF pending < NlChannelCap THEN pending ELSE NlChannelCap

\* for len(nlChannel) > 0 { <-nlChannel }: what is left pending
RECURSIVE Drain(_)
Drain(pending) == IF ChannelLen(pending) > 0 THEN Drain(pending - 1) ELSE pending

\* the body of the loop over net.Interfaces(): the names of the devices
\* appended to resources.Devices; lost are the interfaces that
\* netlink.LinkByName does not find any more
Devices(ifs, gw, lost) ==
    { i.name : i \in { i \in ifs : /\ i.name # gw
                                    /\ IsDNS1123Label(i.name)
                                    /\ ~i.loopback
                                    /\ i.name \notin lost
                                    /\ ~i.veth } }

\* the loop of PublishResources is not running
\* Start has returned the plugin: the registration was seen, the loop runs
NotRegistered == [set |-> FALSE, PluginRegistered |-> FALSE]
Started ==
    [pc |-> "started", status |-> [set |-> TRUE, PluginRegistered |-> TRUE], polls |-> 0,
     cancelled |-> FALSE]

NoDiscovery ==
    /\ ifaces = {} /\ routes = << >> /\ ifaceGw = << >>
    /\ nlChannel = 0
    /\ publisher = [pc |-> "none", computed |-> {}]
    /\ published = {}
    /\ start = Started

----------------------------------------------------------------------------
(* Kernel: netlink view of the links *)

\* a netlink.Link value is a snapshot of the attributes at lookup time
Nil == [index |-> 0, name |-> "", up |-> FALSE, alias |-> ""]
Handle(k, l) ==
    [index |-> k[l].index, name |-> k[l].name, up |-> k[l].up, alias |-> k[l].alias]

\* the link a handle designates: the one that has the interface index of the
\* handle in namespace ns, the namespace the thread is in (0 = none)
Designated(k, ns, dev) ==
    IF \E l \in DOMAIN k : k[l].ns = ns /\ k[l].index = dev.index
    THEN CHOOSE l \in DOMAIN k : k[l].ns = ns /\ k[l].index = dev.index
    ELSE 0
Present(k, ns, dev) == Designated(k, ns, dev) # 0

\* interface indexes are per namespace: a link that arrives in a namespace
\* where its index is in use is given a new one there, the next the
\* namespace has not used
ArrivalIndex(k, target, index) ==
    IF \E l \in DOMAIN k : k[l].ns = target /\ k[l].index = index
    THEN 1 + CHOOSE n \in {k[l].index : l \in {j \in DOMAIN k : k[j].ns = target}} :
                 \A l \in DOMAIN k : k[l].ns = target => k[l].index <= n
    ELSE index
NameTaken(k, ns, name, self) ==
    \E l \in DOMAIN k : l # self /\ k[l].ns = ns /\ k[l].name = name

\* the running state of a move: kernel, "a rollback call failed", calls made
Mach(k) == [k |-> k, rb |-> FALSE, log |-> <<>>, ok |-> TRUE]
Call(m, what, ok, k2) ==
    [k |-> IF ok THEN k2 ELSE m.k, rb |-> m.rb, log |-> Append(m.log, what), ok |-> ok]
\* a call made by a deferred rollback: its error is discarded (_ = ...)
Undo(r) == [r EXCEPT !.rb = r.rb \/ ~r.ok]

\* fmt.Sprintf("%s%d", "temp_", dev.Attrs().Index)
TempName(dev) == "temp_" \o ToString(dev.index)

\* netlink.LinkByName in the namespace the thread is in; Nil on error
LinkByName(k, ns, name, fault) ==
    IF fault \/ ~(\E l \in DOMAIN k : k[l].ns = ns /\ k[l].name = name)
    THEN Nil
    ELSE Handle(k, CHOOSE l \in DOMAIN k : k[l].ns = ns /\ k[l].name = name)

LinkSetDown(m, ns, dev, fault) ==
    Call(m, "LinkSetDown", ~fault /\ Present(m.k, ns, dev),
         [m.k EXCEPT ![Designated(m.k, ns, dev)].up = FALSE])

LinkSetUp(m, ns, dev, fault) ==
    Call(m, "LinkSetUp", ~fault /\ Present(m.k, ns, dev),
         [m.k EXCEPT ![Designated(m.k, ns, dev)].up = TRUE])

LinkSetName(m, ns, dev, name, fault) ==
    Call(m, "LinkSetName",
         ~fault /\ Present(m.k, ns, dev) /\ name # ""
                /\ ~NameTaken(m.k, ns, name, Designated(m.k, ns, dev)),
         [m.k EXCEPT ![Designated(m.k, ns, dev)].name = name])

LinkSetAlias(m, ns, dev, alias, fault) ==
    Call(m, "LinkSetAlias", ~fault /\ Present(m.k, ns, dev),
         [m.k EXCEPT ![Designated(m.k, ns, dev)].alias = alias])

\* move the link from the namespace the thread is in to namespace target
LinkSetNsFd(m, ns, dev, target, fault) ==
    Call(m, "LinkSetNsFd",
         ~fault /\ Present(m.k, ns, dev)
                /\ ~NameTaken(m.k, target, m.k[Designated(m.k, ns, dev)].name,
                              Designated(m.k, ns, dev)),
         [m.k EXCEPT ![Designated(m.k, ns, dev)] =
             [@ EXCEPT !.ns = target,
                       !.index = ArrivalIndex(m.k, target, @)]])

----------------------------------------------------------------------------
(* Fault labels: one per netlink / namespace call site *)

InForward == {"I_GetNS", "I_ByName", "I_GetCurrentNS", "I_SetDown", "I_TmpSetName",
              "I_TmpByName", "I_SetNsFd", "I_Do", "I_CByName", "I_SetAlias",
              "I_SetName", "I_SetUp", "I_ReByName"}
InRollback == {"U_SetUp", "U_SetName", "U_SetNsFd", "U_ByName", "U_TmpName", "U_SetDown"}

OutForward == {"O_GetNS", "O_GetCurrentNS", "O_Do", "O_ByName", "O_SetDown",
               "O_TmpSetName", "O_TmpByName", "O_SetNsFd", "O_HByName", "O_SetName"}

\* the deferred calls that are registered when forward call f of MoveLinkIn
\* is made, and so can run (and fail) when f fails
InDeferred(f) ==
    CASE f \in {"I_GetNS", "I_ByName", "I_GetCurrentNS", "I_SetDown"} -> {}
      [] f \in {"I_TmpSetName", "I_TmpByName"} -> {"U_SetUp"}
      [] f \in {"I_SetNsFd", "I_Do", "I_CByName"} -> {"U_SetUp", "U_SetName"}
      [] f \in {"I_SetAlias", "I_SetName"} ->
            {"U_SetUp", "U_SetName", "U_SetNsFd", "U_ByName"}
      [] f = "I_SetUp" -> InRollback \ {"U_SetDown"}
      [] OTHER -> InRollback

\* the same for MoveLinkOut
OutDeferred(f) ==
    CASE f \in {"O_TmpSetName", "O_TmpByName", "O_SetNsFd"} -> {"V_SetName", "V_SetUp"}
      [] f = "O_SetName" -> {"V_SetNsFd", "V_ByName", "V_SetName2", "V_SetUp2"}
      [] OTHER -> {}

\* the deferred calls that fail in one move
RollbackSets(deferred) ==
    {S \in SUBSET deferred : Cardinality(S) <= MaxRollbackFaults}

\* at most one forward call fails (the first failure ends the forward path),
\* and with it some of the deferred calls it leads to
InFaults ==
    {{}} \cup UNION {{{f} \cup R : R \in RollbackSets(InDeferred(f))} : f \in InForward}
OutFaults ==
    {{}} \cup UNION {{{f} \cup R : R \in RollbackSets(OutDeferred(f))} : f \in OutForward}

----------------------------------------------------------------------------
(* hostdevice.setTempName *)

\* result: the machine and the new handle (Nil on error)
setTempName(m, ns, dev, fSetName, fByName) ==
    LET r == LinkSetName(m, ns, dev, TempName(dev), fSetName)
    IN  IF ~r.ok THEN [m |-> r, dev |-> Nil]
        ELSE [m |-> [r EXCEPT !.log = Append(r.log, "LinkByName")],
              dev |-> LinkByName(r.k, ns, TempName(dev), fByName)]

----------------------------------------------------------------------------
(* hostdevice.MoveLinkIn *)

\* outcome of a move: res is "ok", "error" or "panic" (nil link dereferenced)
Outcome(m, res, step) ==
    [k |-> m.k, res |-> res, rb |-> m.rb, log |-> m.log, step |-> step]

\* defer: restore original link state in case of error
InRestoreState(m, hostDev, origUp, F) ==
    IF origUp /\ hostDev # Nil
    THEN Undo(LinkSetUp(m, Root, hostDev, "U_SetUp" \in F))
    ELSE m

\* defer: restore original netdev name in case of error
InRestoreName(m, hostDev, hostDevName, F) ==
    IF hostDev # Nil
    THEN Undo(LinkSetName(m, Root, hostDev, hostDevName, "U_SetName" \in F))
    ELSE m

\* the two deferred functions of MoveLinkIn, last registered first
InUnwindHost(m, hostDev, hostDevName, origUp, F) ==
    InRestoreState(InRestoreName(m, hostDev, hostDevName, F), hostDev, origUp, F)

\* defer inside containerNs.Do: move netdev back to host namespace; the
\* result carries the value the closure leaves in hostDev
InMoveBack(m, cns, contDev, tempDevName, F) ==
    LET r == Undo(LinkSetNsFd(m, cns, contDev, Root, "U_SetNsFd" \in F))
        h == LinkByName(r.k, Root, tempDevName, "U_ByName" \in F)
    IN  [m |-> [r EXCEPT !.log = Append(r.log, "LinkByName"),
                         !.rb = r.rb \/ h = Nil],
         hostDev |-> h]

\* defer inside containerNs.Do: restore tempDevName in case of error
InRestoreTemp(m, cns, contDev, tempDevName, F) ==
    Undo(LinkSetName(m, cns, contDev, tempDevName, "U_TmpName" \in F))

\* defer inside containerNs.Do: bring device down in case of error
InBringDown(m, cns, contDev, F) ==
    Undo(LinkSetDown(m, cns, contDev, "U_SetDown" \in F))

\* every netlink call starts with link.Attrs(): a nil Link makes it panic
NilDereference(dev) == dev = Nil

\* the function run by containerNs.Do; result: machine, error flag, panic
\* flag, the value left in hostDev, the step that failed
InContainer(m0, cns, hostDev, hostDevName, ifName, F) ==
    LET tempDevName == hostDev.name
        contDev == LinkByName(m0.k, cns, tempDevName, "I_CByName" \in F)
        m1 == [m0 EXCEPT !.log = Append(m0.log, "LinkByName")]
        Fail(m, hd, step) == [m |-> m, err |-> TRUE, panic |-> FALSE, hostDev |-> hd, step |-> step]
    IN
    IF contDev = Nil THEN Fail(m1, hostDev, "resolve in target")
    ELSE
    LET r6 == LinkSetAlias(m1, cns, contDev, hostDevName, "I_SetAlias" \in F) IN
    IF ~r6.ok THEN
        LET b == InMoveBack(r6, cns, contDev, tempDevName, F)
        IN  Fail(b.m, b.hostDev, "set alias")
    ELSE
    LET r7 == LinkSetName(r6, cns, contDev, ifName, "I_SetName" \in F) IN
    IF ~r7.ok THEN
        LET b == InMoveBack(r7, cns, contDev, tempDevName, F)
        IN  Fail(b.m, b.hostDev, "rename to final")
    ELSE
    LET r8 == LinkSetUp(r7, cns, contDev, "I_SetUp" \in F) IN
    IF ~r8.ok THEN
        LET t == InRestoreTemp(r8, cns, contDev, tempDevName, F)
            b == InMoveBack(t, cns, contDev, tempDevName, F)
        IN  Fail(b.m, b.hostDev, "bring up")
    ELSE
    LET contDev9 == LinkByName(r8.k, cns, ifName, "I_ReByName" \in F)
        m9 == [r8 EXCEPT !.log = Append(r8.log, "LinkByName")]
    IN
    IF contDev9 # Nil
    THEN [m |-> m9, err |-> FALSE, panic |-> FALSE, hostDev |-> hostDev, step |-> "none"]
    ELSE \* the deferred functions run with the contDev the failed lookup left
    IF NilDereference(contDev9)
    THEN [m |-> m9, err |-> TRUE, panic |-> TRUE, hostDev |-> hostDev, step |-> "re-resolve"]
    ELSE
        LET d == InBringDown(m9, cns, contDev9, F)
            t == InRestoreTemp(d, cns, contDev9, tempDevName, F)
            b == InMoveBack(t, cns, contDev9, tempDevName, F)
        IN  Fail(b.m, b.hostDev, "re-resolve")

MoveLinkIn(k, hostIfName, cns, ifName, F) ==
    LET m0 == [Mach(k) EXCEPT !.log = <<"LinkByName">>]
        hostDev == LinkByName(k, Root, hostIfName, "I_ByName" \in F)
    IN
    IF hostDev = Nil THEN Outcome(m0, "error", "resolve")
    ELSE
    LET origUp == hostDev.up
        hostDevName == hostDev.name
    IN
    IF "I_GetCurrentNS" \in F THEN Outcome(m0, "error", "host namespace")
    ELSE
    LET r2 == LinkSetDown(m0, Root, hostDev, "I_SetDown" \in F) IN
    IF ~r2.ok THEN Outcome(r2, "error", "set down")
    ELSE
    LET t == setTempName(r2, Root, hostDev, "I_TmpSetName" \in F, "I_TmpByName" \in F)
        hostDev3 == t.dev
    IN
    IF hostDev3 = Nil
    THEN Outcome(InRestoreState(t.m, hostDev3, origUp, F), "error", "rename to temporary")
    ELSE
    LET r4 == LinkSetNsFd(t.m, Root, hostDev3, cns, "I_SetNsFd" \in F) IN
    IF ~r4.ok
    THEN Outcome(InUnwindHost(r4, hostDev3, hostDevName, origUp, F), "error", "move to target")
    ELSE
    IF "I_Do" \in F
    THEN Outcome(InUnwindHost(r4, hostDev3, hostDevName, origUp, F), "error", "enter target")
    ELSE
    LET c == InContainer(r4, cns, hostDev3, hostDevName, ifName, F) IN
    IF c.panic THEN Outcome(c.m, "panic", c.step)
    ELSE IF c.err
    THEN Outcome(InUnwindHost(c.m, c.hostDev, hostDevName, origUp, F), "error", c.step)
    ELSE Outcome(c.m, "ok", "none")

----------------------------------------------------------------------------
(* hostdevice.MoveLinkOut *)

\* defer inside containerNs.Do: set the name back to ifName so that the
\* function can be retried, bring the device back up unless it was down
OutRestore(m, cns, dev, ifName, F) ==
    LET r == Undo(LinkSetName(m, cns, dev, ifName, "V_SetName" \in F))
    IN  IF dev.up THEN Undo(LinkSetUp(r, cns, dev, "V_SetUp" \in F)) ELSE r

\* the function run by containerNs.Do; result: machine, error flag, the
\* values left in tempName and origDev, the step that failed
OutContainer(m0, cns, ifName, F) ==
    LET dev == LinkByName(m0.k, cns, ifName, "O_ByName" \in F)
        m1 == [m0 EXCEPT !.log = Append(m0.log, "LinkByName")]
        Fail(m, od, step) ==
            [m |-> m, err |-> TRUE, tempName |-> "", origDev |-> od, step |-> step]
    IN
    IF dev = Nil THEN Fail(m1, Nil, "resolve")
    ELSE
    LET r2 == LinkSetDown(m1, cns, dev, "O_SetDown" \in F) IN
    IF ~r2.ok THEN Fail(r2, dev, "set down")
    ELSE
    LET t == setTempName(r2, cns, dev, "O_TmpSetName" \in F, "O_TmpByName" \in F) IN
    IF t.dev = Nil
    THEN Fail(OutRestore(t.m, cns, dev, ifName, F), dev, "rename to temporary")
    ELSE
    LET dev3 == t.dev
        r4 == LinkSetNsFd(t.m, cns, dev3, Root, "O_SetNsFd" \in F)
    IN
    IF ~r4.ok
    THEN Fail(OutRestore(r4, cns, dev3, ifName, F), dev, "move to root")
    ELSE [m |-> r4, err |-> FALSE, tempName |-> dev3.name, origDev |-> dev, step |-> "none"]

\* mutant of OutMoveBack: the device is not brought up again
OutMoveBack_LeavesDown(m, cns, tempDev, tempName, origDev, ifName, F) ==
    LET r == Undo(LinkSetNsFd(m, Root, tempDev, cns, "V_SetNsFd" \in F))
        lnk == LinkByName(r.k, cns, tempName, "V_ByName" \in F)
        r1 == [r EXCEPT !.log = Append(r.log, "LinkByName"), !.rb = r.rb \/ lnk = Nil]
    IN
    IF lnk = Nil THEN r1
    ELSE Undo(LinkSetName(r1, cns, lnk, ifName, "V_SetName2" \in F))

\* defer after the final rename failed: move device back to container ns
OutMoveBack(m, cns, tempDev, tempName, origDev, ifName, F) ==
    LET r == Undo(LinkSetNsFd(m, Root, tempDev, cns, "V_SetNsFd" \in F))
        lnk == LinkByName(r.k, cns, tempName, "V_ByName" \in F)
        r1 == [r EXCEPT !.log = Append(r.log, "LinkByName"), !.rb = r.rb \/ lnk = Nil]
    IN
    IF lnk = Nil THEN r1
    ELSE LET r2 == Undo(LinkSetName(r1, cns, lnk, ifName, "V_SetName2" \in F))
         IN  IF origDev.up THEN Undo(LinkSetUp(r2, cns, lnk, "V_SetUp2" \in F)) ELSE r2

\* mutant of OutRenameToAlias: rename to the name the device already has
OutRenameToAlias_KeepsName(m, tempDev, F) ==
    LinkSetName(m, Root, tempDev, tempDev.name, "O_SetName" \in F)

\* mutant of OutRenameToAlias: the renamed device is brought up again
OutRenameToAlias_BringsUp(m, tempDev, F) ==
    LET r == LinkSetName(m, Root, tempDev, tempDev.alias, "O_SetName" \in F)
    IN  IF r.ok THEN LinkSetUp(r, Root, tempDev, FALSE) ELSE r

\* rename the device to its original name from the host namespace
OutRenameToAlias(m, tempDev, F) ==
    LinkSetName(m, Root, tempDev, tempDev.alias, "O_SetName" \in F)

MoveLinkOut(k, cns, ifName, F) ==
    LET m0 == Mach(k) IN
    IF "O_GetCurrentNS" \in F THEN Outcome(m0, "error", "host namespace")
    ELSE IF "O_Do" \in F THEN Outcome(m0, "error", "enter target")
    ELSE
    LET c == OutContainer(m0, cns, ifName, F) IN
    IF c.err THEN Outcome(c.m, "error", c.step)
    ELSE
    LET tempDev == LinkByName(c.m.k, Root, c.tempName, "O_HByName" \in F)
        m5 == [c.m EXCEPT !.log = Append(c.m.log, "LinkByName")]
    IN
    IF tempDev = Nil THEN Outcome(m5, "error", "resolve in root")
    ELSE
    LET r6 == OutRenameToAlias(m5, tempDev, F) IN
    IF ~r6.ok
    THEN Outcome(OutMoveBack(r6, cns, tempDev, c.tempName, c.origDev, ifName, F),
                 "error", "rename to original")
    ELSE Outcome(r6, "ok", "none")

----------------------------------------------------------------------------
(* MoveLinkIn / MoveLinkOut call by call, for moves that run concurrently *)

Movers == 1..NumMovers

\* the netlink calls of the two functions in program order; the calls that
\* cannot touch the links (GetNS, GetCurrentNS, Do) are left out
InProgram_RenameFirst ==
    <<"I_ByName", "I_SetDown", "I_TmpSetName", "I_TmpByName", "I_SetNsFd",
      "I_CByName", "I_SetName", "I_SetAlias", "I_SetUp", "I_ReByName">>
InProgram ==
    <<"I_ByName", "I_SetDown", "I_TmpSetName", "I_TmpByName", "I_SetNsFd",
      "I_CByName", "I_SetAlias", "I_SetName", "I_SetUp", "I_ReByName">>
OutProgram ==
    <<"O_ByName", "O_SetDown", "O_TmpSetName", "O_TmpByName", "O_SetNsFd",
      "O_HByName", "O_SetName">>

\* position of a call in a sequence of calls (0 = not there)
Pos(calls, c) ==
    IF \E i \in DOMAIN calls : calls[i] = c
    THEN CHOOSE i \in DOMAIN calls : calls[i] = c
    ELSE 0

\* the locals of one running move.  hostDev is hostDev of MoveLinkIn and dev
\* of MoveLinkOut; contDev is contDev of MoveLinkIn and tempDev, then lnk, of
\* MoveLinkOut; origUp is origLinkFlags&net.FlagUp of MoveLinkIn and the flag
\* of origDev of MoveLinkOut; defers holds the deferred calls that will act,
\* the first to run first; link is the link the move was started for
NotMoving ==
    [op |-> "none", pc |-> "done", link |-> 0, ns |-> "", hostIfName |-> "",
     ifName |-> "", hostDev |-> Nil, contDev |-> Nil, hostDevName |-> "",
     origUp |-> FALSE, tempDevName |-> "", defers |-> <<>>, res |-> "", log |-> <<>>]

\* one netlink call of move m on the links k: the links and the locals after it
Exec(k, m) ==
    LET pc == IF m.pc = "unwind" THEN Head(m.defers) ELSE m.pc
        prog == IF m.op = "in" THEN InProgram ELSE OutProgram
        m0 == [m EXCEPT !.defers = IF m.pc = "unwind" THEN Tail(@) ELSE @,
                        !.log = Append(@, pc)]
        Return(k2, m2, res) ==
            [k |-> k2, m |-> [m2 EXCEPT !.pc = "done", !.res = res, !.defers = <<>>]]
        \* the call succeeded: on to the next one
        Ok(k2, m2) ==
            IF Pos(prog, pc) = Len(prog)
            THEN Return(k2, m2, "ok")
            ELSE [k |-> k2, m |-> [m2 EXCEPT !.pc = prog[Pos(prog, pc) + 1]]]
        \* the call failed, or a deferred call is over: the deferred calls run
        Err(k2, m2) ==
            IF m2.defers = <<>>
            THEN Return(k2, m2, "error")
            ELSE [k |-> k2, m |-> [m2 EXCEPT !.pc = "unwind", !.res = "error"]]
        Defer(m2, calls) == [m2 EXCEPT !.defers = calls \o @]
        Mach0 == Mach(k)
        Forward(r, then) == IF r.ok THEN Ok(r.k, then) ELSE Err(k, m0)
    IN
    CASE pc = "I_ByName" ->
            LET h == LinkByName(k, Root, m.hostIfName, FALSE) IN
            IF h = Nil THEN Err(k, m0)
            ELSE Ok(k, [m0 EXCEPT !.hostDev = h, !.origUp = h.up, !.hostDevName = h.name])
      [] pc = "I_SetDown" ->
            Forward(LinkSetDown(Mach0, Root, m.hostDev, FALSE), Defer(m0, <<"U_SetUp">>))
      [] pc = "I_TmpSetName" ->
            LET r == LinkSetName(Mach0, Root, m.hostDev, TempName(m.hostDev), FALSE) IN
            IF r.ok THEN Ok(r.k, m0) ELSE Err(k, [m0 EXCEPT !.hostDev = Nil])
      [] pc = "I_TmpByName" ->
            LET h == LinkByName(k, Root, TempName(m.hostDev), FALSE) IN
            IF h = Nil THEN Err(k, [m0 EXCEPT !.hostDev = Nil])
            ELSE Ok(k, Defer([m0 EXCEPT !.hostDev = h, !.tempDevName = h.name],
                             <<"U_SetName">>))
      [] pc = "I_SetNsFd" ->
            Forward(LinkSetNsFd(Mach0, Root, m.hostDev, m.ns, FALSE), m0)
      [] pc = "I_CByName" ->
            LET h == LinkByName(k, m.ns, m.tempDevName, FALSE) IN
            IF h = Nil THEN Err(k, m0)
            ELSE Ok(k, Defer([m0 EXCEPT !.contDev = h], <<"U_SetNsFd", "U_ByName">>))
      [] pc = "I_SetAlias" ->
            Forward(LinkSetAlias(Mach0, m.ns, m.contDev, m.hostDevName, FALSE), m0)
      [] pc = "I_SetName" ->
            Forward(LinkSetName(Mach0, m.ns, m.contDev, m.ifName, FALSE),
                    Defer(m0, <<"U_TmpName">>))
      [] pc = "I_SetUp" ->
            Forward(LinkSetUp(Mach0, m.ns, m.contDev, FALSE), Defer(m0, <<"U_SetDown">>))
      [] pc = "I_ReByName" ->
            LET h == LinkByName(k, m.ns, m.ifName, FALSE) IN
            IF NilDereference(h) THEN Return(k, [m0 EXCEPT !.contDev = h], "panic")
            ELSE Ok(k, [m0 EXCEPT !.contDev = h])
      [] pc = "U_SetDown" -> Err(LinkSetDown(Mach0, m.ns, m.contDev, FALSE).k, m0)
      [] pc = "U_TmpName" ->
            Err(LinkSetName(Mach0, m.ns, m.contDev, m.tempDevName, FALSE).k, m0)
      [] pc = "U_SetNsFd" -> Err(LinkSetNsFd(Mach0, m.ns, m.contDev, Root, FALSE).k, m0)
      [] pc = "U_ByName" ->
            Err(k, [m0 EXCEPT !.hostDev = LinkByName(k, Root, m.tempDevName, FALSE)])
      [] pc = "U_SetName" ->
            IF m.hostDev = Nil THEN Err(k, m0)
            ELSE Err(LinkSetName(Mach0, Root, m.hostDev, m.hostDevName, FALSE).k, m0)
      [] pc = "U_SetUp" ->
            IF m.origUp /\ m.hostDev # Nil
            THEN Err(LinkSetUp(Mach0, Root, m.hostDev, FALSE).k, m0)
            ELSE Err(k, m0)
      [] pc = "O_ByName" ->
            LET h == LinkByName(k, m.ns, m.ifName, FALSE) IN
            IF h = Nil THEN Err(k, m0)
            ELSE Ok(k, [m0 EXCEPT !.hostDev = h, !.origUp = h.up])
      [] pc = "O_SetDown" ->
            Forward(LinkSetDown(Mach0, m.ns, m.hostDev, FALSE),
                    Defer(m0, <<"V_SetName", "V_SetUp">>))
      [] pc = "O_TmpSetName" ->
            Forward(LinkSetName(Mach0, m.ns, m.hostDev, TempName(m.hostDev), FALSE), m0)
      [] pc = "O_TmpByName" ->
            LET h == LinkByName(k, m.ns, TempName(m.hostDev), FALSE) IN
            IF h = Nil THEN Err(k, m0)
            ELSE Ok(k, [m0 EXCEPT !.hostDev = h, !.tempDevName = h.name])
      [] pc = "O_SetNsFd" ->
            Forward(LinkSetNsFd(Mach0, m.ns, m.hostDev, Root, FALSE),
                    [m0 EXCEPT !.defers = <<>>])
      [] pc = "O_HByName" ->
            LET h == LinkByName(k, Root, m.tempDevName, FALSE) IN
            IF h = Nil THEN Err(k, m0) ELSE Ok(k, [m0 EXCEPT !.contDev = h])
      [] pc = "O_SetName" ->
            LET r == LinkSetName(Mach0, Root, m.contDev, m.contDev.alias, FALSE) IN
            IF r.ok THEN Ok(r.k, m0)
            ELSE Err(k, Defer(m0, <<"V_SetNsFd", "V_ByName", "V_SetName2", "V_SetUp2">>))
      [] pc = "V_SetName" -> Err(LinkSetName(Mach0, m.ns, m.hostDev, m.ifName, FALSE).k, m0)
      [] pc = "V_SetUp" ->
            IF m.hostDev.up THEN Err(LinkSetUp(Mach0, m.ns, m.hostDev, FALSE).k, m0)
            ELSE Err(k, m0)
      [] pc = "V_SetNsFd" -> Err(LinkSetNsFd(Mach0, Root, m.contDev, m.ns, FALSE).k, m0)
      [] pc = "V_ByName" ->
            LET h == LinkByName(k, m.ns, m.tempDevName, FALSE) IN
            IF h = Nil THEN Return(k, m0, "error") ELSE Err(k, [m0 EXCEPT !.contDev = h])
      [] pc = "V_SetName2" ->
            Err(LinkSetName(Mach0, m.ns, m.contDev, m.ifName, FALSE).k, m0)
      [] pc = "V_SetUp2" ->
            IF m.origUp THEN Err(LinkSetUp(Mach0, m.ns, m.contDev, FALSE).k, m0)
            ELSE Err(k, m0)

----------------------------------------------------------------------------
(* nri.netdevice.inject / release: the mover as called for one device *)

\* the link the call is about: the one named name in namespace ns (0 = none)
LinkNamed(k, ns, name) ==
    IF \E l \in DOMAIN k : k[l].ns = ns /\ k[l].name = name
    THEN CHOOSE l \in DOMAIN k : k[l].ns = ns /\ k[l].name = name
    ELSE 0

inject(k, name, nsPath, newName, F) ==
    IF "I_GetNS" \in F
    THEN Outcome(Mach(k), "error", "open namespace")
    ELSE MoveLinkIn(k, name, nsPath, newName, F)

release(k, nsPath, newName, F) ==
    IF "O_GetNS" \in F
    THEN Outcome(Mach(k), "error", "open namespace")
    ELSE MoveLinkOut(k, nsPath, newName, F)

NoMove ==
    [op |-> "none", link |-> 0, name |-> "", ns |-> "", newName |-> "",
     res |-> "ok", rb |-> FALSE, step |-> "none", wasUp |-> FALSE,
     paired |-> FALSE, hostName |-> "", hostUp |-> FALSE]

\* history record of an inject: the link (0 = none of that name), whether it
\* was up before the call, the outcome
InjectRecord(k, name, nsPath, newName, o) ==
    LET l == LinkNamed(k, Root, name) IN
    [op |-> "Inject", link |-> l, name |-> name, ns |-> nsPath, newName |-> newName,
     res |-> o.res, rb |-> o.rb, step |-> o.step,
     wasUp |-> IF l = 0 THEN FALSE ELSE k[l].up,
     paired |-> FALSE, hostName |-> "", hostUp |-> FALSE]

\* history record of a release; paired = it immediately follows the successful
\* inject of the same device into the same namespace under the same name, and
\* hostName / hostUp are then what the device was in the root namespace
ReleaseRecord(k, prev, nsPath, newName, o) ==
    LET l == LinkNamed(k, nsPath, newName)
        p == prev.op = "Inject" /\ prev.res = "ok" /\ prev.ns = nsPath
                /\ prev.newName = newName /\ prev.link = l /\ l # 0
    IN
    [op |-> "Release", link |-> l, name |-> newName, ns |-> nsPath, newName |-> newName,
     res |-> o.res, rb |-> o.rb, step |-> o.step,
     wasUp |-> IF l = 0 THEN FALSE ELSE k[l].up,
     paired |-> p,
     hostName |-> IF p THEN prev.name ELSE "",
     hostUp |-> IF p THEN prev.wasUp ELSE FALSE]

----------------------------------------------------------------------------
(* The mover on its own: inject and release of single devices *)

NoCall == [op |-> "none"]

\* the names a caller asks for inside the pod: the host name (dra passes
\* result.Device twice) or a new name
NewNameChoices(name) == {name, "eth0"}

MoverInit ==
    /\ links \in [Links -> [ns : {Root}, index : Links, name : HostNames, alias : {""},
                             up : BOOLEAN]]
    /\ \A l \in Links : links[l].name = HostName(l) /\ links[l].index = l
    /\ rdma = [l \in Links |-> ""]
    /\ claimAllocations = EmptyCache
    /\ podAllocations = EmptyCache
    /\ mv = NoMove
    /\ rpc = NoCall
    /\ faulty = 0
    /\ mu = Unlocked
    /\ callers = [g \in Goroutines |-> Idle]
    /\ written = EmptyCache
    /\ claimsMu = Unlocked
    /\ tasks = [g \in Goroutines |-> NoTask]
    /\ NoDiscovery
    /\ movers = [g \in Movers |-> NotMoving]

Inject ==
    \E name \in HostNames, nsPath \in NsPaths, F \in InFaults :
      \E newName \in NewNameChoices(name) :
        LET o == inject(links, name, nsPath, newName, F) IN
        /\ F # {} => faulty < MaxFaultyCalls
        /\ faulty' = IF F = {} THEN faulty ELSE faulty + 1
        /\ links' = o.k
        /\ mv' = InjectRecord(links, name, nsPath, newName, o)
        /\ UNCHANGED <<rdma, claimAllocations, podAllocations, rpc>>
        /\ UNCHANGED <<storeVars, discVars, movers>>

Release ==
    \E nsPath \in NsPaths, newName \in NewNames, F \in OutFaults :
        LET o == release(links, nsPath, newName, F) IN
        /\ F # {} => faulty < MaxFaultyCalls
        /\ faulty' = IF F = {} THEN faulty ELSE faulty + 1
        /\ links' = o.k
        /\ mv' = ReleaseRecord(links, mv, nsPath, newName, o)
        /\ UNCHANGED <<rdma, claimAllocations, podAllocations, rpc>>
        /\ UNCHANGED <<storeVars, discVars, movers>>

MoverNext == Inject \/ Release

MoverSpec == MoverInit /\ [][MoverNext]_vars

----------------------------------------------------------------------------
(* Inputs of the DRA handlers *)

\* allocation results the scheduler may have written into a claim
Allocations ==
    { [results |-> << Result("net1", "net1") >>,
       config |-> << Config(FALSE, "", << >>) >>],
      [results |-> << Result("net1", "net1"), Result("net2", "net2") >>,
       config |-> << Config(TRUE, DriverName, << "net1" >>),
                     Config(TRUE, "other.example.com", << >>) >>] }

\* claim.Status.ReservedFor entries
PodReference(p) == [resource |-> "pods", apiGroup |-> "", uid |-> PodUID(p)]
OtherReferences ==
    { [resource |-> "pods", apiGroup |-> "example.io", uid |-> "other1"],
      [resource |-> "deployments", apiGroup |-> "", uid |-> "other2"] }
References == {PodReference(p) : p \in Pods} \cup OtherReferences
ReservedLists ==
    {<< >>} \cup {<<r>> : r \in References}
            \cup {<<PodReference(1), r>> : r \in {PodReference(2)} \cup OtherReferences}

ClaimUIDs == {"claim-a", "claim-b"}
\* drapb.Claim of a request: the claim is fetched by namespace and name
ClaimRequests == [namespace : {"default"}, name : {"claim"}, uid : ClaimUIDs]

\* what ResourceClaims(namespace).Get(name) returns: an error, or the claim
\* object (allocated = Status.Allocation is not nil)
FetchError ==
    [ok |-> FALSE, uid |-> "", allocated |-> FALSE, allocation |-> EmptyAllocation,
     reservedFor |-> << >>]
FetchedClaims ==
    {FetchError}
    \cup [ok : {TRUE}, uid : ClaimUIDs, allocated : {FALSE},
          allocation : {EmptyAllocation}, reservedFor : ReservedLists]
    \cup [ok : {TRUE}, uid : ClaimUIDs, allocated : {TRUE},
          allocation : Allocations, reservedFor : ReservedLists]

----------------------------------------------------------------------------
(* NetworkPlugin.nodePrepareResource / nodeUnprepareResource *)

\* mutant of UnsupportedReference: both conditions required to skip
UnsupportedReference_Both(reserved) == reserved.resource # "pods" /\ reserved.apiGroup # ""

\* reserved.Resource != "pods" || reserved.APIGroup != ""
UnsupportedReference(reserved) == reserved.resource # "pods" \/ reserved.apiGroup # ""

\* mutant of AddReserved: nothing is stored under the uid of a pod
AddReserved_SkipsPods(cache, reservedFor, i, allocation) == cache

\* the loop over claim.Status.ReservedFor
RECURSIVE AddReserved(_, _, _, _)
AddReserved(cache, reservedFor, i, allocation) ==
    IF i > Len(reservedFor) THEN cache
    ELSE IF UnsupportedReference(reservedFor[i])
         THEN AddReserved(cache, reservedFor, i + 1, allocation)
         ELSE AddReserved(Add(cache, reservedFor[i].uid, allocation),
                          reservedFor, i + 1, allocation)

\* the condition of the inner loop over Devices.Config
ConfigSkipped(config, requestName) ==
    \/ ~config.opaque
    \/ config.driver # DriverName
    \/ (Len(config.requests) > 0
        /\ ~(\E n \in 1..Len(config.requests) : config.requests[n] = requestName))

\* the inner loop over Devices.Config, from config n: its continue goes on with
\* the next config, and so does the end of its body; it always runs to its end
RECURSIVE ConfigLoop(_, _, _)
ConfigLoop(config, requestName, n) ==
    IF n > Len(config) THEN "done"
    ELSE IF ConfigSkipped(config[n], requestName)
         THEN ConfigLoop(config, requestName, n + 1)
         ELSE ConfigLoop(config, requestName, n + 1)

\* the loop over Devices.Results, from result i: the device of the result is
\* appended after the inner loop
RECURSIVE PreparedFrom(_, _, _)
PreparedFrom(allocation, i, devices) ==
    IF i > Len(allocation.results) THEN devices
    ELSE IF ConfigLoop(allocation.config, allocation.results[i].request, 1) = "done"
         THEN PreparedFrom(allocation, i + 1,
                           Append(devices, [PoolName |-> allocation.results[i].pool,
                                            DeviceName |-> allocation.results[i].device]))
         ELSE PreparedFrom(allocation, i + 1, devices)

PreparedDevices(allocation) == PreparedFrom(allocation, 1, << >>)

\* claim.UID != types.UID(claim.UID): the fetched identity compared with itself
ClaimReplaced(claimReq, claim) == claim.uid # claim.uid

\* mutant of nodePrepareResource: the claim is stored before it is validated
nodePrepareResource_StoresFirst(ca, pa, claimReq, claim) ==
    IF ~claim.ok
    THEN [ca |-> ca, pa |-> pa, err |-> "retrieve claim", devices |-> << >>]
    ELSE LET ca2 == Add(ca, claim.uid, claim.allocation)
             pa2 == AddReserved(pa, claim.reservedFor, 1, claim.allocation)
         IN  IF ~claim.allocated
             THEN [ca |-> ca2, pa |-> pa2, err |-> "not allocated", devices |-> << >>]
             ELSE IF ClaimReplaced(claimReq, claim)
             THEN [ca |-> ca2, pa |-> pa2, err |-> "got replaced", devices |-> << >>]
             ELSE [ca |-> ca2, pa |-> pa2, err |-> "",
                   devices |-> PreparedDevices(claim.allocation)]

nodePrepareResource(ca, pa, claimReq, claim) ==
    IF ~claim.ok
    THEN [ca |-> ca, pa |-> pa, err |-> "retrieve claim", devices |-> << >>]
    ELSE IF ~claim.allocated
    THEN [ca |-> ca, pa |-> pa, err |-> "not allocated", devices |-> << >>]
    ELSE IF ClaimReplaced(claimReq, claim)
    THEN [ca |-> ca, pa |-> pa, err |-> "got replaced", devices |-> << >>]
    ELSE [ca |-> Add(ca, claim.uid, claim.allocation),
          pa |-> AddReserved(pa, claim.reservedFor, 1, claim.allocation),
          err |-> "",
          devices |-> PreparedDevices(claim.allocation)]

\* mutant of nodeUnprepareResource: the whole store is emptied
nodeUnprepareResource_RemovesAll(ca, claimReq) ==
    IF ~Get(ca, claimReq.uid).ok
    THEN [ca |-> ca, found |-> FALSE, err |-> ""]
    ELSE [ca |-> EmptyCache, found |-> TRUE, err |-> ""]

\* mutant of nodeUnprepareResource: a claim that is not in the store is an error
nodeUnprepareResource_MissIsError(ca, claimReq) ==
    IF ~Get(ca, claimReq.uid).ok
    THEN [ca |-> ca, found |-> FALSE, err |-> "claim not prepared"]
    ELSE [ca |-> Remove(ca, claimReq.uid), found |-> TRUE, err |-> ""]

nodeUnprepareResource(ca, claimReq) ==
    IF ~Get(ca, claimReq.uid).ok
    THEN [ca |-> ca, found |-> FALSE, err |-> ""]
    ELSE [ca |-> Remove(ca, claimReq.uid), found |-> TRUE, err |-> ""]

----------------------------------------------------------------------------
(* RDMA companion devices *)

\* links that have an RDMA companion device on this host
RdmaCapable == {1}
\* links that are administratively up when the driver starts
UpAtStart == {1}

\* what rdmamap.GetRdmaDeviceForNetdevice answers and whether the move of the
\* companion is made to fail: inputs from the environment
RdmaAnswers == {"found", "none", "lookup error", "move error"}

\* hostdevice.MoveRDMALinkIn: move the RDMA device of link l out of the root
\* namespace into nsPath
MoveRDMALinkIn(rd, l, nsPath, fault) ==
    IF fault \/ l = 0 \/ rd[l] # Root
    THEN [rd |-> rd, ok |-> FALSE]
    ELSE [rd |-> [rd EXCEPT ![l] = nsPath], ok |-> TRUE]

\* the RDMA part of one iteration of the loops of RunPodSandbox and
\* StopPodSandbox: look the companion up, move it into ns, log and go on
AttachRDMA(rd, moves, l, device, nsPath, rq) ==
    IF rq = "lookup error"
    THEN [rd |-> rd, moves |-> Append(moves, [call |-> "GetRdmaDeviceForNetdevice",
                                              device |-> device, res |-> "error"])]
    ELSE IF rq = "none" \/ l = 0 \/ rd[l] = ""
    THEN [rd |-> rd, moves |-> Append(moves, [call |-> "GetRdmaDeviceForNetdevice",
                                              device |-> device, res |-> "none"])]
    ELSE LET r == MoveRDMALinkIn(rd, l, nsPath, rq = "move error")
         IN  [rd |-> r.rd,
              moves |-> Append(moves, [call |-> "MoveRDMALinkIn", device |-> device,
                                       res |-> IF r.ok THEN "ok" ELSE "error"])]

----------------------------------------------------------------------------
(* NetworkPlugin.RunPodSandbox / StopPodSandbox *)

\* the environment of one sandbox event: the faults F hit the move of the
\* j-th device result, rq is the answer of the RDMA lookups
SandboxEnvs ==
    [j : {0}, F : {{}}, rq : RdmaAnswers]
    \cup [j : {1, 2}, F : {{f} : f \in InForward}, rq : {"found"}]
StopEnvs ==
    [j : {0}, F : {{}}, rq : RdmaAnswers]
    \cup [j : {1, 2}, F : {{f} : f \in OutForward}, rq : {"found"}]

\* mutant of RunResults: the results are taken from the last to the first
RECURSIVE RunResults_LastFirst(_, _, _, _)
RunResults_LastFirst(st, results, i, env) ==
    IF i > Len(results) THEN st
    ELSE
    LET device == results[Len(results) + 1 - i].device
        l == LinkNamed(st.k, Root, device)
        AfterMove(o) ==
            LET moved == Append(st.moves,
                                [call |-> "MoveLinkIn", device |-> device, res |-> o.res])
                Attached(a) ==
                    RunResults_LastFirst([k |-> o.k, rd |-> a.rd, moves |-> a.moves,
                                          res |-> "ok"],
                                         results, i + 1, env)
            IN  IF o.res # "ok"
                THEN [k |-> o.k, rd |-> st.rd, moves |-> moved, res |-> o.res]
                ELSE Attached(AttachRDMA(st.rd, moved, l, device, env.ns, env.rq))
    IN  AfterMove(inject(st.k, device, env.ns, device, IF i = env.j THEN env.F ELSE {}))

\* mutant of RunResults: a failed RDMA lookup or move ends the loop with
\* its error
RECURSIVE RunResults_RdmaErrorReturns(_, _, _, _)
RunResults_RdmaErrorReturns(st, results, i, env) ==
    IF i > Len(results) THEN st
    ELSE
    LET device == results[i].device
        l == LinkNamed(st.k, Root, device)
        AfterMove(o) ==
            LET moved == Append(st.moves,
                                [call |-> "MoveLinkIn", device |-> device, res |-> o.res])
                Attached(a) ==
                    IF a.moves[Len(a.moves)].res = "error"
                    THEN [k |-> o.k, rd |-> a.rd, moves |-> a.moves, res |-> "error"]
                    ELSE RunResults_RdmaErrorReturns(
                             [k |-> o.k, rd |-> a.rd, moves |-> a.moves, res |-> "ok"],
                             results, i + 1, env)
            IN  IF o.res # "ok"
                THEN [k |-> o.k, rd |-> st.rd, moves |-> moved, res |-> o.res]
                ELSE Attached(AttachRDMA(st.rd, moved, l, device, env.ns, env.rq))
    IN  AfterMove(inject(st.k, device, env.ns, device, IF i = env.j THEN env.F ELSE {}))

\* the loop over allocation.Devices.Results of RunPodSandbox, from result i
RECURSIVE RunResults(_, _, _, _)
RunResults(st, results, i, env) ==
    IF i > Len(results) THEN st
    ELSE
    LET device == results[i].device
        l == LinkNamed(st.k, Root, device)
        AfterMove(o) ==
            LET moved == Append(st.moves,
                                [call |-> "MoveLinkIn", device |-> device, res |-> o.res])
                Attached(a) ==
                    RunResults([k |-> o.k, rd |-> a.rd, moves |-> a.moves, res |-> "ok"],
                               results, i + 1, env)
            IN  IF o.res # "ok"
                THEN [k |-> o.k, rd |-> st.rd, moves |-> moved, res |-> o.res]
                ELSE Attached(AttachRDMA(st.rd, moved, l, device, env.ns, env.rq))
    IN  AfterMove(inject(st.k, device, env.ns, device, IF i = env.j THEN env.F ELSE {}))

\* mutant of RunPodSandbox: an event without a network namespace is not skipped
RunPodSandbox_IgnoresNamespace(pa, k, rd, uid, nsPath, env) ==
    LET g == Get(pa, uid)
        idle == [pa |-> pa, k |-> k, rd |-> rd, res |-> "ok", hit |-> g.ok, moves |-> << >>]
    IN
    IF ~g.ok THEN idle
    ELSE LET Done(r) == [pa |-> pa, k |-> r.k, rd |-> r.rd, res |-> r.res, hit |-> TRUE,
                         moves |-> r.moves]
         IN  Done(RunResults([k |-> k, rd |-> rd, moves |-> << >>, res |-> "ok"],
                             g.allocation.results, 1,
                             [ns |-> nsPath, j |-> env.j, F |-> env.F, rq |-> env.rq]))

\* result: stores, kernel, what is returned to the runtime ("ok", "error", or
\* "panic" when the process dies), whether the pod had allocations, the calls
RunPodSandbox(pa, k, rd, uid, nsPath, env) ==
    LET g == Get(pa, uid)
        idle == [pa |-> pa, k |-> k, rd |-> rd, res |-> "ok", hit |-> g.ok, moves |-> << >>]
    IN
    IF ~g.ok THEN idle
    ELSE IF nsPath = "" THEN idle
    ELSE LET Done(r) == [pa |-> pa, k |-> r.k, rd |-> r.rd, res |-> r.res, hit |-> TRUE,
                         moves |-> r.moves]
         IN  Done(RunResults([k |-> k, rd |-> rd, moves |-> << >>, res |-> "ok"],
                             g.allocation.results, 1,
                             [ns |-> nsPath, j |-> env.j, F |-> env.F, rq |-> env.rq]))

\* mutant of StopResults_PropagatesError: the error of a failed release is returned
RECURSIVE StopResults_PropagatesError(_, _, _, _)
StopResults_PropagatesError(st, results, i, env) ==
    IF i > Len(results) THEN st
    ELSE
    LET device == results[i].device
        l == LinkNamed(st.k, env.ns, device)
        AfterMove(o) ==
            LET moved == Append(st.moves,
                                [call |-> "MoveLinkOut", device |-> device, res |-> o.res])
                Attached(a) ==
                    StopResults_PropagatesError([k |-> o.k, rd |-> a.rd, moves |-> a.moves, res |-> "ok"],
                                results, i + 1, env)
            IN  IF o.res # "ok"
                THEN [k |-> o.k, rd |-> st.rd, moves |-> moved, res |-> "error"]
                ELSE Attached(AttachRDMA(st.rd, moved, l, device, env.ns, env.rq))
    IN  AfterMove(release(st.k, env.ns, device, IF i = env.j THEN env.F ELSE {}))

\* the loop over allocation.Devices.Results of StopPodSandbox, from result i
RECURSIVE StopResults(_, _, _, _)
StopResults(st, results, i, env) ==
    IF i > Len(results) THEN st
    ELSE
    LET device == results[i].device
        l == LinkNamed(st.k, env.ns, device)
        AfterMove(o) ==
            LET moved == Append(st.moves,
                                [call |-> "MoveLinkOut", device |-> device, res |-> o.res])
                Attached(a) ==
                    StopResults([k |-> o.k, rd |-> a.rd, moves |-> a.moves, res |-> "ok"],
                                results, i + 1, env)
            IN  IF o.res # "ok"
                THEN \* the error is swallowed: return nil
                     [k |-> o.k, rd |-> st.rd, moves |-> moved, res |-> "ok"]
                ELSE Attached(AttachRDMA(st.rd, moved, l, device, env.ns, env.rq))
    IN  AfterMove(release(st.k, env.ns, device, IF i = env.j THEN env.F ELSE {}))

\* mutant of StopPodSandbox: the entry is removed at the end of the function
\* instead of in a deferred call, so that every early return keeps it
StopPodSandbox_RemovesLast(pa, k, rd, uid, nsPath, env) ==
    LET g == Get(pa, uid) IN
    IF ~g.ok
    THEN [pa |-> pa, k |-> k, rd |-> rd, res |-> "ok", hit |-> FALSE, moves |-> << >>]
    ELSE
    IF nsPath = ""
    THEN [pa |-> pa, k |-> k, rd |-> rd, res |-> "ok", hit |-> TRUE, moves |-> << >>]
    ELSE LET Done(r) ==
                 LET early == \E n \in 1..Len(r.moves) :
                                 r.moves[n].call = "MoveLinkOut" /\ r.moves[n].res # "ok"
                 IN  [pa |-> IF early THEN pa ELSE Remove(pa, uid),
                      k |-> r.k, rd |-> r.rd, res |-> r.res, hit |-> TRUE,
                      moves |-> r.moves]
         IN  Done(StopResults([k |-> k, rd |-> rd, moves |-> << >>, res |-> "ok"],
                              g.allocation.results, 1,
                              [ns |-> nsPath, j |-> env.j, F |-> env.F, rq |-> env.rq]))

StopPodSandbox(pa, k, rd, uid, nsPath, env) ==
    LET g == Get(pa, uid) IN
    IF ~g.ok
    THEN [pa |-> pa, k |-> k, rd |-> rd, res |-> "ok", hit |-> FALSE, moves |-> << >>]
    ELSE \* defer np.podAllocations.Remove(pod.Uid)
    IF nsPath = ""
    THEN [pa |-> Remove(pa, uid), k |-> k, rd |-> rd, res |-> "ok", hit |-> TRUE,
          moves |-> << >>]
    ELSE LET Done(r) == [pa |-> Remove(pa, uid), k |-> r.k, rd |-> r.rd, res |-> r.res,
                         hit |-> TRUE, moves |-> r.moves]
         IN  Done(StopResults([k |-> k, rd |-> rd, moves |-> << >>, res |-> "ok"],
                              g.allocation.results, 1,
                              [ns |-> nsPath, j |-> env.j, F |-> env.F, rq |-> env.rq]))

----------------------------------------------------------------------------
(* The driver: DRA calls of the kubelet and NRI events of the runtime *)

Init ==
    /\ links = [l \in Links |->
                  [ns |-> Root, index |-> l, name |-> HostName(l), alias |-> "",
                   up |-> l \in UpAtStart]]
    /\ rdma = [l \in Links |-> IF l \in RdmaCapable THEN Root ELSE ""]
    /\ claimAllocations = EmptyCache
    /\ podAllocations = EmptyCache
    /\ mv = NoMove
    /\ rpc = NoCall
    /\ faulty = 0
    /\ mu = Unlocked
    /\ callers = [g \in Goroutines |-> Idle]
    /\ written = EmptyCache
    /\ claimsMu = Unlocked
    /\ tasks = [g \in Goroutines |-> NoTask]
    /\ NoDiscovery
    /\ movers = [g \in Movers |-> NotMoving]

\* a NodePrepareResources call for one claim: the request and the claim
\* object the API server returns for its namespace and name
PrepareWith(inputs) ==
    \E in \in inputs :
        LET claimReq == in[1]
            claim == in[2]
            r == nodePrepareResource(claimAllocations, podAllocations, claimReq, claim)
        IN
        /\ claimAllocations' = r.ca
        /\ podAllocations' = r.pa
        /\ rpc' = [op |-> "Prepare", req |-> claimReq, claim |-> claim, err |-> r.err,
                   devices |-> r.devices,
                   again |-> rpc.op = "Prepare" /\ rpc.err = "" /\ rpc.req = claimReq
                             /\ rpc.claim = claim]
        /\ UNCHANGED <<links, rdma, mv, faulty>>
        /\ UNCHANGED <<storeVars, discVars, movers>>

\* any request, any answer of the API server
PrepareInputs == ClaimRequests \X FetchedClaims

\* the calls the kubelet makes for a pod it is about to start: the claim is
\* allocated, reserved for pods, and is the object the request names
KubeletInputs ==
    {in \in PrepareInputs :
        /\ in[2].ok /\ in[2].allocated /\ in[1].uid = in[2].uid
        /\ in[2].reservedFor # << >>
        /\ \A i \in 1..Len(in[2].reservedFor) : ~UnsupportedReference(in[2].reservedFor[i])}

Prepare == PrepareWith(PrepareInputs)

KubeletPrepare == PrepareWith(KubeletInputs)

Unprepare ==
    \E claimReq \in ClaimRequests :
        LET r == nodeUnprepareResource(claimAllocations, claimReq) IN
        /\ claimAllocations' = r.ca
        /\ rpc' = [op |-> "Unprepare", req |-> claimReq, found |-> r.found, err |-> r.err]
        /\ UNCHANGED <<links, rdma, podAllocations, mv, faulty>>
        /\ UNCHANGED <<storeVars, discVars, movers>>

\* the pod of an event: its uid and the path of its network namespace, ""
\* when the event lists no namespace of type "network"
SandboxCreate ==
    \E p \in Pods, hasNs \in BOOLEAN, env \in SandboxEnvs :
        LET uid == PodUID(p)
            nsPath == IF hasNs THEN NsPath(p) ELSE ""
            injected == env.F # {} \/ env.rq \in {"lookup error", "move error"}
            g == Get(podAllocations, uid)
        IN
        \* a fault is one of a call the handler makes: the pod has devices, a
        \* namespace, and a j-th device
        /\ injected => /\ faulty < MaxFaultyCalls
                       /\ hasNs /\ g.ok /\ env.j <= Len(g.allocation.results)
        /\ faulty' = IF injected THEN faulty + 1 ELSE faulty
        /\ \E r \in {RunPodSandbox(podAllocations, links, rdma, uid, nsPath, env)} :
           /\ links' = r.k
           /\ rdma' = r.rd
           \* a panic ends the process: it is started again with empty stores
           /\ podAllocations' = IF r.res = "panic" THEN EmptyCache ELSE r.pa
           /\ claimAllocations' = IF r.res = "panic" THEN EmptyCache ELSE claimAllocations
           /\ rpc' = [op |-> "RunPodSandbox", uid |-> uid, ns |-> nsPath, res |-> r.res,
                      hit |-> r.hit, moves |-> r.moves]
           /\ UNCHANGED mv
           /\ UNCHANGED <<storeVars, discVars, movers>>

SandboxStop ==
    \E p \in Pods, hasNs \in BOOLEAN, env \in StopEnvs :
        LET uid == PodUID(p)
            nsPath == IF hasNs THEN NsPath(p) ELSE ""
            injected == env.F # {} \/ env.rq \in {"lookup error", "move error"}
            g == Get(podAllocations, uid)
        IN
        \* a fault is one of a call the handler makes: the pod has devices, a
        \* namespace, and a j-th device
        /\ injected => /\ faulty < MaxFaultyCalls
                       /\ hasNs /\ g.ok /\ env.j <= Len(g.allocation.results)
        /\ faulty' = IF injected THEN faulty + 1 ELSE faulty
        /\ \E r \in {StopPodSandbox(podAllocations, links, rdma, uid, nsPath, env)} :
           /\ links' = r.k
           /\ rdma' = r.rd
           /\ podAllocations' = r.pa
           /\ rpc' = [op |-> "StopPodSandbox", uid |-> uid, ns |-> nsPath, res |-> r.res,
                      hit |-> r.hit, moves |-> r.moves]
           /\ UNCHANGED <<claimAllocations, mv>>
           /\ UNCHANGED <<storeVars, discVars, movers>>

Next == KubeletPrepare \/ Unprepare \/ SandboxCreate \/ SandboxStop

Spec == Init /\ [][Next]_vars

\* the DRA side on its own, with every answer the API server can give
PrepareNext == Prepare \/ Unprepare

PrepareSpec == Init /\ [][PrepareNext]_vars

\* two claims of one pod: each claim has its own device, and both claims are
\* reserved for the pods that use them
OwnDevice ==
    { [results |-> << Result("net1", "net1") >>, config |-> << >>],
      [results |-> << Result("net2", "net2") >>, config |-> << >>] }
SharedInputs ==
    {in \in ClaimRequests \X
            [ok : {TRUE}, uid : ClaimUIDs, allocated : {TRUE}, allocation : OwnDevice,
             reservedFor : {<<PodReference(1)>>, <<PodReference(2)>>,
                            <<PodReference(1), PodReference(2)>>}] :
        in[1].uid = in[2].uid}

SharedPrepare == PrepareWith(SharedInputs)

SharedNext == SharedPrepare \/ Unprepare \/ SandboxCreate \/ SandboxStop

SharedSpec == Init /\ [][SharedNext]_vars

----------------------------------------------------------------------------
(* NodePrepareResources / NodeUnprepareResources over several claims *)

\* resp.Claims[claimReq.UID] = ...: a later entry for a uid replaces an earlier
SetResponse(resp, uid, entry) ==
    [u \in DOMAIN resp \cup {uid} |-> IF u = uid THEN entry ELSE resp[u]]

EmptyResponse == [u \in {} |-> [error |-> "", devices |-> << >>]]

\* mutant of PrepareClaims: the loop ends at the first claim that fails
RECURSIVE PrepareClaims_StopsAtError(_, _, _)
PrepareClaims_StopsAtError(st, claims, i) ==
    IF i > Len(claims) THEN st
    ELSE LET Prepared(r) ==
                 IF r.err # ""
                 THEN [ca |-> r.ca, pa |-> r.pa,
                       resp |-> SetResponse(st.resp, claims[i][1].uid,
                                            [error |-> r.err, devices |-> << >>])]
                 ELSE PrepareClaims_StopsAtError(
                          [ca |-> r.ca, pa |-> r.pa,
                           resp |-> SetResponse(st.resp, claims[i][1].uid,
                                                [error |-> "", devices |-> r.devices])],
                          claims, i + 1)
         IN  Prepared(nodePrepareResource(st.ca, st.pa, claims[i][1], claims[i][2]))

\* the loop over request.GetClaims(), from claim i; claims[i] is the request
\* entry and the claim object the API server returns for it
RECURSIVE PrepareClaims(_, _, _)
PrepareClaims(st, claims, i) ==
    IF i > Len(claims) THEN st
    ELSE LET Prepared(r) ==
                 PrepareClaims(
                     [ca |-> r.ca, pa |-> r.pa,
                      resp |-> SetResponse(st.resp, claims[i][1].uid,
                                           IF r.err # ""
                                           THEN [error |-> r.err, devices |-> << >>]
                                           ELSE [error |-> "", devices |-> r.devices])],
                     claims, i + 1)
         IN  Prepared(nodePrepareResource(st.ca, st.pa, claims[i][1], claims[i][2]))

NodePrepareResources(ca, pa, claims) ==
    PrepareClaims([ca |-> ca, pa |-> pa, resp |-> EmptyResponse], claims, 1)

\* the loop over request.Claims, from claim i
RECURSIVE UnprepareClaims(_, _, _)
UnprepareClaims(st, claims, i) ==
    IF i > Len(claims) THEN st
    ELSE LET Unprepared(r) ==
                 UnprepareClaims(
                     [ca |-> r.ca,
                      resp |-> SetResponse(st.resp, claims[i].uid,
                                           [error |-> r.err, devices |-> << >>])],
                     claims, i + 1)
         IN  Unprepared(nodeUnprepareResource(st.ca, claims[i]))

NodeUnprepareResources(ca, claims) ==
    UnprepareClaims([ca |-> ca, resp |-> EmptyResponse], claims, 1)

\* the claims of the batches: a fetch that fails, a claim without allocation,
\* an allocated claim; each reserved for pod1
BatchInputs ==
    {in \in PrepareInputs :
        /\ in[2].ok => (in[2].uid = in[1].uid /\ in[2].reservedFor = <<PodReference(1)>>)}

SeqsUpTo(S, n) == UNION {[1..m -> S] : m \in 0..n}

PrepareBatch ==
    \E claims \in SeqsUpTo(BatchInputs, MaxBatch) :
      \E r \in {NodePrepareResources(claimAllocations, podAllocations, claims)} :
        /\ claimAllocations' = r.ca
        /\ podAllocations' = r.pa
        /\ rpc' = [op |-> "NodePrepareResources", claims |-> claims, resp |-> r.resp]
        /\ UNCHANGED <<links, rdma, mv, faulty>>
        /\ UNCHANGED <<storeVars, discVars, movers>>

UnprepareBatch ==
    \E claims \in SeqsUpTo(ClaimRequests, MaxBatch) :
      \E r \in {NodeUnprepareResources(claimAllocations, claims)} :
        /\ claimAllocations' = r.ca
        /\ rpc' = [op |-> "NodeUnprepareResources", claims |-> claims, resp |-> r.resp]
        /\ UNCHANGED <<links, rdma, podAllocations, mv, faulty>>
        /\ UNCHANGED <<storeVars, discVars, movers>>

BatchNext == PrepareBatch \/ UnprepareBatch

BatchSpec == Init /\ [][BatchNext]_vars

----------------------------------------------------------------------------
(* nri.Plugin: the sandbox handlers driven by pod annotations *)

\* an annotated netdevice: name in the runtime namespace, name inside the pod
\* ("" when the annotation leaves new_name out)
Netdevices == [name : HostNames, newName : {"", "eth0"}]

\* what parseNetdevices returns: the devices as unmarshalled (the defaulting
\* loop ranges over copies, so a new_name left out stays ""), none without
\* annotation, or an error
ParsedAnnotations ==
    {[err |-> TRUE, netdevices |-> << >>], [err |-> FALSE, netdevices |-> << >>]}
    \cup {[err |-> FALSE, netdevices |-> <<d>>] : d \in Netdevices}
    \cup {[err |-> FALSE, netdevices |-> <<d, e>>] :
             d \in {n \in Netdevices : n.name = HostName(1)},
             e \in {n \in Netdevices : n.name = HostName(2)}}

\* the loop over netdevices of Plugin.RunPodSandbox, from device i: the first
\* inject that fails ends the handler, which returns nil
RECURSIVE PluginInject(_, _, _, _)
PluginInject(st, netdevices, i, env) ==
    IF i > Len(netdevices) THEN st
    ELSE LET n == netdevices[i]
             AfterMove(o) ==
                 LET moved == Append(st.moves, [call |-> "inject", device |-> n.name,
                                                newName |-> n.newName, res |-> o.res])
                 IN  IF o.res = "panic" THEN [k |-> o.k, moves |-> moved, res |-> "panic"]
                     ELSE IF o.res # "ok" THEN [k |-> o.k, moves |-> moved, res |-> "ok"]
                     ELSE PluginInject([k |-> o.k, moves |-> moved, res |-> "ok"],
                                       netdevices, i + 1, env)
         IN  AfterMove(inject(st.k, n.name, env.ns, n.newName,
                              IF i = env.j THEN env.F ELSE {}))

PluginRunPodSandbox(k, parsed, nsPath, env) ==
    IF parsed.err THEN [k |-> k, moves |-> << >>, res |-> "error"]
    ELSE IF Len(parsed.netdevices) = 0 \/ nsPath = ""
    THEN [k |-> k, moves |-> << >>, res |-> "ok"]
    ELSE PluginInject([k |-> k, moves |-> << >>, res |-> "ok"], parsed.netdevices, 1,
                      [ns |-> nsPath, j |-> env.j, F |-> env.F])

\* the loop over netdevices of Plugin.StopPodSandbox, from device i
RECURSIVE PluginRelease(_, _, _, _)
PluginRelease(st, netdevices, i, env) ==
    IF i > Len(netdevices) THEN st
    ELSE LET n == netdevices[i]
             AfterMove(o) ==
                 LET moved == Append(st.moves, [call |-> "release", device |-> n.name,
                                                newName |-> n.newName, res |-> o.res])
                 IN  IF o.res # "ok" THEN [k |-> o.k, moves |-> moved, res |-> "ok"]
                     ELSE PluginRelease([k |-> o.k, moves |-> moved, res |-> "ok"],
                                        netdevices, i + 1, env)
         IN  AfterMove(release(st.k, env.ns, n.newName, IF i = env.j THEN env.F ELSE {}))

PluginStopPodSandbox(k, parsed, nsPath, env) ==
    IF parsed.err THEN [k |-> k, moves |-> << >>, res |-> "error"]
    ELSE IF Len(parsed.netdevices) = 0 \/ nsPath = ""
    THEN [k |-> k, moves |-> << >>, res |-> "ok"]
    ELSE PluginRelease([k |-> k, moves |-> << >>, res |-> "ok"], parsed.netdevices, 1,
                       [ns |-> nsPath, j |-> env.j, F |-> env.F])

\* the faults of one event of the plugin: none, or one forward call of the
\* move of the j-th device
PluginEnvs(forward) == {[j |-> 0, F |-> {}]} \cup [j : {1, 2}, F : {{f} : f \in forward}]

PluginCreate ==
    \E p \in Pods, hasNs \in BOOLEAN, parsed \in ParsedAnnotations,
       env \in PluginEnvs(InForward) :
        LET nsPath == IF hasNs THEN NsPath(p) ELSE "" IN
        /\ env.F # {} => /\ faulty < MaxFaultyCalls
                         /\ hasNs /\ env.j <= Len(parsed.netdevices)
        /\ faulty' = IF env.F # {} THEN faulty + 1 ELSE faulty
        /\ \E r \in {PluginRunPodSandbox(links, parsed, nsPath, env)} :
           /\ links' = r.k
           /\ rpc' = [op |-> "Plugin.RunPodSandbox", uid |-> PodUID(p), ns |-> nsPath,
                      res |-> r.res, hit |-> ~parsed.err /\ parsed.netdevices # << >>,
                      moves |-> r.moves]
           /\ UNCHANGED <<rdma, claimAllocations, podAllocations, mv>>
           /\ UNCHANGED <<storeVars, discVars, movers>>

PluginStop ==
    \E p \in Pods, hasNs \in BOOLEAN, parsed \in ParsedAnnotations,
       env \in PluginEnvs(OutForward) :
        LET nsPath == IF hasNs THEN NsPath(p) ELSE "" IN
        /\ env.F # {} => /\ faulty < MaxFaultyCalls
                         /\ hasNs /\ env.j <= Len(parsed.netdevices)
        /\ faulty' = IF env.F # {} THEN faulty + 1 ELSE faulty
        /\ \E r \in {PluginStopPodSandbox(links, parsed, nsPath, env)} :
           /\ links' = r.k
           /\ rpc' = [op |-> "Plugin.StopPodSandbox", uid |-> PodUID(p), ns |-> nsPath,
                      res |-> r.res, hit |-> ~parsed.err /\ parsed.netdevices # << >>,
                      moves |-> r.moves]
           /\ UNCHANGED <<rdma, claimAllocations, podAllocations, mv>>
           /\ UNCHANGED <<storeVars, discVars, movers>>

PluginNext == PluginCreate \/ PluginStop

PluginSpec == Init /\ [][PluginNext]_vars

----------------------------------------------------------------------------
(* parseNetdevices *)

\* the addresses of the annotations and what net.ParseIP / To4 make of them
Addresses == {"", "10.0.0.7", "fd00::7", "10.0.0"}
ParseIP(address) ==
    CASE address = "10.0.0.7" -> "v4"
      [] address = "fd00::7" -> "v6"
      [] OTHER -> "nil"

\* the netdevice values yaml.Unmarshal yields: a field the annotation leaves
\* out has the zero value
Unmarshalled ==
    [name : HostNames, newName : {"", "eth0"}, address : Addresses, prefix : {0, 24}]

\* the annotation of a pod: none under either key, one that is no yaml
\* list of netdevices, or a list of up to MaxNetdevices netdevices
MaxNetdevices == 2
Annotations ==
    {[kind |-> "none", netdevices |-> << >>], [kind |-> "invalid", netdevices |-> << >>]}
    \cup {[kind |-> "yaml", netdevices |-> d] :
             d \in UNION {[1..m -> Unmarshalled] : m \in 0..MaxNetdevices}}

\* the body of the loop "validate and default": the value of the loop
\* variable n at the end of an iteration
Defaulted(n) ==
    LET named == IF n.newName = "" THEN [n EXCEPT !.newName = n.name] ELSE n IN
    IF named.address # "" /\ ParseIP(named.address) # "nil" /\ named.prefix = 0
    THEN [named EXCEPT !.prefix = IF ParseIP(named.address) = "v6" THEN 128 ELSE 32]
    ELSE named

\* mutant of DefaultLoop: the loop assigns to the elements of the slice
RECURSIVE DefaultLoop_InPlace(_, _)
DefaultLoop_InPlace(netdevices, i) ==
    IF i > Len(netdevices) THEN [err |-> FALSE, netdevices |-> netdevices]
    ELSE IF netdevices[i].address # "" /\ ParseIP(netdevices[i].address) = "nil"
    THEN [err |-> TRUE, netdevices |-> << >>]
    ELSE DefaultLoop_InPlace([netdevices EXCEPT ![i] = Defaulted(netdevices[i])], i + 1)

\* for _, n := range netdevices: n is a copy of the element, and what the
\* body assigns to it is gone at the end of the iteration
RECURSIVE DefaultLoop(_, _)
DefaultLoop(netdevices, i) ==
    IF i > Len(netdevices) THEN [err |-> FALSE, netdevices |-> netdevices]
    ELSE LET n == Defaulted(netdevices[i]) IN
         IF n.address # "" /\ ParseIP(n.address) = "nil"
         THEN [err |-> TRUE, netdevices |-> << >>]
         ELSE DefaultLoop(netdevices, i + 1)

parseNetdevices(annotation) ==
    IF annotation.kind = "none" THEN [err |-> FALSE, netdevices |-> << >>]
    ELSE IF annotation.kind = "invalid" THEN [err |-> TRUE, netdevices |-> << >>]
    ELSE DefaultLoop(annotation.netdevices, 1)

\* a sandbox event arrives with the annotations of its pod
ParseInit ==
    /\ links = [l \in Links |->
                  [ns |-> Root, index |-> l, name |-> HostName(l), alias |-> "",
                   up |-> l \in UpAtStart]]
    /\ rdma = [l \in Links |-> IF l \in RdmaCapable THEN Root ELSE ""]
    /\ claimAllocations = EmptyCache
    /\ podAllocations = EmptyCache
    /\ mv = NoMove
    /\ rpc \in [op : {"event"}, annotation : Annotations]
    /\ faulty = 0
    /\ mu = Unlocked
    /\ callers = [g \in Goroutines |-> Idle]
    /\ written = EmptyCache
    /\ claimsMu = Unlocked
    /\ tasks = [g \in Goroutines |-> NoTask]
    /\ NoDiscovery
    /\ movers = [g \in Movers |-> NotMoving]

\* netdevices, err := parseNetdevices(pod.Annotations)
Parse ==
    /\ rpc.op = "event"
    /\ rpc' = [op |-> "parseNetdevices", annotation |-> rpc.annotation,
               out |-> parseNetdevices(rpc.annotation)]
    /\ UNCHANGED <<links, rdma, claimAllocations, podAllocations, mv, faulty>>
    /\ UNCHANGED <<storeVars, discVars, movers>>

ParseNext == Parse

ParseSpec == ParseInit /\ [][ParseNext]_vars

----------------------------------------------------------------------------
(* storage under concurrent callers: the gRPC goroutines of the kubelet's   *)
(* calls and the goroutines of the runtime's events share podAllocations   *)

\* the rest of the driver does not move while the storage methods run
DriverIdle ==
    UNCHANGED <<links, rdma, claimAllocations, mv, rpc, faulty, discVars, movers, claimsMu,
                tasks>>

\* a goroutine calls Add, Get or Remove
StorageCall ==
    \E g \in Goroutines, op \in {"Add", "Get", "Remove"}, uid \in PodUIDs,
       allocation \in Allocations :
        /\ callers[g].pc = "idle"
        /\ callers' = [callers EXCEPT ![g] =
                         [pc |-> "lock", op |-> op, uid |-> uid,
                          allocation |-> IF op = "Add" THEN allocation ELSE EmptyAllocation,
                          out |-> NoResult]]
        /\ UNCHANGED <<podAllocations, mu, written>>
        /\ DriverIdle

\* s.mu.Lock() of Add and Remove
StorageLock ==
    \E g \in Goroutines :
        /\ callers[g].pc = "lock" /\ callers[g].op \in {"Add", "Remove"}
        /\ CanLock(mu)
        /\ mu' = [mu EXCEPT !.w = g]
        /\ callers' = [callers EXCEPT ![g].pc = "locked"]
        /\ UNCHANGED <<podAllocations, written>>
        /\ DriverIdle

\* s.mu.RLock() of Get
StorageRLock ==
    \E g \in Goroutines :
        /\ callers[g].pc = "lock" /\ callers[g].op = "Get"
        /\ CanRLock(mu)
        /\ mu' = [mu EXCEPT !.r = @ \cup {g}]
        /\ callers' = [callers EXCEPT ![g].pc = "locked"]
        /\ UNCHANGED <<podAllocations, written>>
        /\ DriverIdle

\* s.cache[uid] = allocation, its first words
StorageAddBegin ==
    \E g \in Goroutines :
        /\ callers[g].pc = "locked" /\ callers[g].op = "Add"
        /\ podAllocations' = Add(podAllocations, callers[g].uid,
                                 HalfWritten(callers[g].allocation))
        /\ callers' = [callers EXCEPT ![g].pc = "storing"]
        /\ UNCHANGED <<mu, written>>
        /\ DriverIdle

\* s.cache[uid] = allocation, its last words
StorageAddEnd ==
    \E g \in Goroutines :
        /\ callers[g].pc = "storing"
        /\ podAllocations' = Add(podAllocations, callers[g].uid, callers[g].allocation)
        /\ written' = Add(written, callers[g].uid, callers[g].allocation)
        /\ callers' = [callers EXCEPT ![g].pc = "unlock"]
        /\ UNCHANGED mu
        /\ DriverIdle

\* delete(s.cache, uid)
StorageRemove ==
    \E g \in Goroutines :
        /\ callers[g].pc = "locked" /\ callers[g].op = "Remove"
        /\ podAllocations' = Remove(podAllocations, callers[g].uid)
        /\ written' = Remove(written, callers[g].uid)
        /\ callers' = [callers EXCEPT ![g].pc = "unlock"]
        /\ UNCHANGED mu
        /\ DriverIdle

\* allocation, ok := s.cache[uid]
StorageGet ==
    \E g \in Goroutines :
        /\ callers[g].pc = "locked" /\ callers[g].op = "Get"
        /\ callers' = [callers EXCEPT ![g].pc = "unlock",
                                      ![g].out = Get(podAllocations, callers[g].uid)]
        /\ UNCHANGED <<podAllocations, mu, written>>
        /\ DriverIdle

\* the deferred s.mu.Unlock() / s.mu.RUnlock(), and the return
StorageUnlock ==
    \E g \in Goroutines :
        /\ callers[g].pc = "unlock"
        /\ mu' = IF callers[g].op = "Get" THEN [mu EXCEPT !.r = @ \ {g}]
                                          ELSE [mu EXCEPT !.w = 0]
        /\ callers' = [callers EXCEPT ![g].pc = "idle"]
        /\ UNCHANGED <<podAllocations, written>>
        /\ DriverIdle

StorageNext ==
    \/ StorageCall \/ StorageLock \/ StorageRLock \/ StorageAddBegin \/ StorageAddEnd
    \/ StorageRemove \/ StorageGet \/ StorageUnlock

StorageSpec == Init /\ [][StorageNext]_vars

----------------------------------------------------------------------------
(* The handlers as goroutines: storage methods and the calls between them *)

\* one instruction of a handler: a step of a storage method on a store
\* ("pods" = podAllocations, "claims" = claimAllocations), a call of another
\* component (to = where to go on when it fails), or the test of ok after Get
\* (to = where to go on when the key was not found); to = 0 is a return
Ins(i, store, what, to) == [i |-> i, store |-> store, what |-> what, to |-> to]

\* storage.Add, storage.Get, storage.Remove: the deferred unlock runs at the
\* return, right after the map statement
AddCode(store) ==
    << Ins("Lock", store, "", 0), Ins("Store", store, "", 0), Ins("Unlock", store, "", 0) >>
GetCode(store) ==
    << Ins("RLock", store, "", 0), Ins("Load", store, "", 0), Ins("RUnlock", store, "", 0) >>
RemoveCode(store) ==
    << Ins("Lock", store, "", 0), Ins("Delete", store, "", 0), Ins("Unlock", store, "", 0) >>

\* the handlers for a claim reserved for one pod with one device result
nodePrepareResourceCode ==
    << Ins("Call", "", "ResourceClaims.Get", 0) >> \o AddCode("claims") \o AddCode("pods")
nodeUnprepareResourceCode ==
    GetCode("claims") \o << Ins("IfMiss", "", "", 0) >> \o RemoveCode("claims")
RunPodSandboxCode ==
    GetCode("pods")
    \o << Ins("IfMiss", "", "", 0),
          Ins("Call", "", "MoveLinkIn", 0),
          Ins("Call", "", "GetRdmaDeviceForNetdevice", 0),
          Ins("Call", "", "MoveRDMALinkIn", 0) >>
\* mutant of StopPodSandboxCode: the read lock taken for the lookup is
\* released when the handler returns
StopPodSandboxCode_HoldsLock ==
    << Ins("RLock", "pods", "", 0), Ins("Load", "pods", "", 0),
       Ins("IfMiss", "", "", 7),
       Ins("Call", "", "MoveLinkOut", 7),
       Ins("Call", "", "GetRdmaDeviceForNetdevice", 7),
       Ins("Call", "", "MoveRDMALinkIn", 7),
       Ins("RUnlock", "pods", "", 0) >>
    \o RemoveCode("pods")
\* the deferred podAllocations.Remove runs at every return after the lookup
StopPodSandboxCode ==
    GetCode("pods")
    \o << Ins("IfMiss", "", "", 0),
          Ins("Call", "", "MoveLinkOut", 8),
          Ins("Call", "", "GetRdmaDeviceForNetdevice", 8),
          Ins("Call", "", "MoveRDMALinkIn", 8) >>
    \o RemoveCode("pods")
PublishResourcesCode ==
    << Ins("Call", "", "net.Interfaces", 0), Ins("Call", "", "draPlugin.PublishResources", 0) >>

Handlers == {"nodePrepareResource", "nodeUnprepareResource", "RunPodSandbox",
             "StopPodSandbox", "PublishResources"}
Code(handler) ==
    CASE handler = "nodePrepareResource" -> nodePrepareResourceCode
      [] handler = "nodeUnprepareResource" -> nodeUnprepareResourceCode
      [] handler = "RunPodSandbox" -> RunPodSandboxCode
      [] handler = "StopPodSandbox" -> StopPodSandboxCode
      [] handler = "PublishResources" -> PublishResourcesCode

\* the instruction a task is at
Instr(t) == Code(t.handler)[t.at]
TaskAt(g, kinds) == tasks[g].handler # "none" /\ ~tasks[g].calling /\ Instr(tasks[g]).i \in kinds

\* the task goes on at instruction to, or returns
Goto(t, to) ==
    IF to = 0 \/ to > Len(Code(t.handler)) THEN NoTask ELSE [t EXCEPT !.at = to]

LockOf(store) == IF store = "pods" THEN mu ELSE claimsMu
CacheOf(store) == IF store = "pods" THEN podAllocations ELSE claimAllocations
KeyOf(t, store) == IF store = "pods" THEN t.uid ELSE t.claim

\* the rest of the driver does not move while the handlers are looked at
\* call by call
TasksOnly == UNCHANGED <<links, rdma, mv, rpc, faulty, callers, written, discVars, movers>>

\* the kubelet, the runtime or Start makes a goroutine run a handler
HandlerCalled ==
    \E g \in Goroutines, handler \in Handlers, uid \in PodUIDs \cup {""},
       claim \in ClaimUIDs \cup {""}, allocation \in Allocations \cup {EmptyAllocation} :
        /\ tasks[g].handler = "none"
        \* the arguments the handler has
        /\ (uid # "") = (handler \in {"nodePrepareResource", "RunPodSandbox", "StopPodSandbox"})
        /\ (claim # "") = (handler \in {"nodePrepareResource", "nodeUnprepareResource"})
        /\ (allocation # EmptyAllocation) = (handler = "nodePrepareResource")
        /\ tasks' = [tasks EXCEPT ![g] =
                       [NoTask EXCEPT !.handler = handler, !.at = 1, !.uid = uid,
                                      !.claim = claim, !.allocation = allocation]]
        /\ UNCHANGED <<claimAllocations, podAllocations, mu, claimsMu>>
        /\ TasksOnly

\* s.mu.Lock()
TaskLock ==
    \E g \in Goroutines :
        /\ TaskAt(g, {"Lock"})
        /\ CanLock(LockOf(Instr(tasks[g]).store))
        /\ IF Instr(tasks[g]).store = "pods"
           THEN mu' = [mu EXCEPT !.w = g] /\ UNCHANGED claimsMu
           ELSE claimsMu' = [claimsMu EXCEPT !.w = g] /\ UNCHANGED mu
        /\ tasks' = [tasks EXCEPT ![g] = Goto(@, @.at + 1)]
        /\ UNCHANGED <<claimAllocations, podAllocations>>
        /\ TasksOnly

\* s.mu.RLock()
TaskRLock ==
    \E g \in Goroutines :
        /\ TaskAt(g, {"RLock"})
        /\ CanRLock(LockOf(Instr(tasks[g]).store))
        /\ IF Instr(tasks[g]).store = "pods"
           THEN mu' = [mu EXCEPT !.r = @ \cup {g}] /\ UNCHANGED claimsMu
           ELSE claimsMu' = [claimsMu EXCEPT !.r = @ \cup {g}] /\ UNCHANGED mu
        /\ tasks' = [tasks EXCEPT ![g] = Goto(@, @.at + 1)]
        /\ UNCHANGED <<claimAllocations, podAllocations>>
        /\ TasksOnly

\* s.cache[uid] = allocation and delete(s.cache, uid)
TaskWrite ==
    \E g \in Goroutines :
        /\ TaskAt(g, {"Store", "Delete"})
        /\ \E store \in {Instr(tasks[g]).store} :
           \E cache \in {IF Instr(tasks[g]).i = "Store"
                         THEN Add(CacheOf(store), KeyOf(tasks[g], store), tasks[g].allocation)
                         ELSE Remove(CacheOf(store), KeyOf(tasks[g], store))} :
              IF store = "pods"
              THEN podAllocations' = cache /\ UNCHANGED claimAllocations
              ELSE claimAllocations' = cache /\ UNCHANGED podAllocations
        /\ tasks' = [tasks EXCEPT ![g] = Goto(@, @.at + 1)]
        /\ UNCHANGED <<mu, claimsMu>>
        /\ TasksOnly

\* allocation, ok := s.cache[uid]
TaskLoad ==
    \E g \in Goroutines :
        /\ TaskAt(g, {"Load"})
        /\ tasks' = [tasks EXCEPT ![g] =
                       Goto([@ EXCEPT !.out = Get(CacheOf(Instr(tasks[g]).store),
                                                  KeyOf(tasks[g], Instr(tasks[g]).store))],
                            @.at + 1)]
        /\ UNCHANGED <<claimAllocations, podAllocations, mu, claimsMu>>
        /\ TasksOnly

\* the deferred s.mu.Unlock() / s.mu.RUnlock()
TaskUnlock ==
    \E g \in Goroutines :
        /\ TaskAt(g, {"Unlock", "RUnlock"})
        /\ \E m \in {IF Instr(tasks[g]).i = "Unlock"
                     THEN [LockOf(Instr(tasks[g]).store) EXCEPT !.w = 0]
                     ELSE [LockOf(Instr(tasks[g]).store) EXCEPT !.r = @ \ {g}]} :
              IF Instr(tasks[g]).store = "pods"
              THEN mu' = m /\ UNCHANGED claimsMu
              ELSE claimsMu' = m /\ UNCHANGED mu
        /\ tasks' = [tasks EXCEPT ![g] = Goto(@, @.at + 1)]
        /\ UNCHANGED <<claimAllocations, podAllocations>>
        /\ TasksOnly

\* if !ok { return nil }
TaskIfMiss ==
    \E g \in Goroutines :
        /\ TaskAt(g, {"IfMiss"})
        /\ tasks' = [tasks EXCEPT ![g] =
                       IF @.out.ok THEN Goto(@, @.at + 1) ELSE Goto(@, Instr(@).to)]
        /\ UNCHANGED <<claimAllocations, podAllocations, mu, claimsMu>>
        /\ TasksOnly

\* the handler calls the API server, the mover, the RDMA library or the
\* kubelet plugin: the call takes its time
TaskCall ==
    \E g \in Goroutines :
        /\ TaskAt(g, {"Call"})
        /\ tasks' = [tasks EXCEPT ![g].calling = TRUE]
        /\ UNCHANGED <<claimAllocations, podAllocations, mu, claimsMu>>
        /\ TasksOnly

\* the call returns, with or without an error
TaskCallReturns ==
    \E g \in Goroutines, failed \in BOOLEAN :
        /\ tasks[g].calling
        /\ tasks' = [tasks EXCEPT ![g] =
                       IF failed THEN Goto([@ EXCEPT !.calling = FALSE], Instr(@).to)
                       ELSE Goto([@ EXCEPT !.calling = FALSE], @.at + 1)]
        /\ UNCHANGED <<claimAllocations, podAllocations, mu, claimsMu>>
        /\ TasksOnly

HandlerNext ==
    \/ HandlerCalled \/ TaskLock \/ TaskRLock \/ TaskWrite \/ TaskLoad \/ TaskUnlock
    \/ TaskIfMiss \/ TaskCall \/ TaskCallReturns

HandlerSpec == Init /\ [][HandlerNext]_vars

----------------------------------------------------------------------------
(* NetworkPlugin.PublishResources: the discovery loop and the host around it *)

\* nothing else of the driver moves while the loop is looked at
DiscoveryOnly ==
    UNCHANGED <<links, rdma, claimAllocations, podAllocations, mv, rpc, faulty, storeVars,
                movers, start>>

\* Start has returned: getDefaultGwIf found the interface of a route with a
\* gateway, the plugin is registered, go plugin.PublishResources(inCtx)
DiscoveryInit ==
    /\ links = [l \in Links |->
                  [ns |-> Root, index |-> l, name |-> HostName(l), alias |-> "",
                   up |-> l \in UpAtStart]]
    /\ rdma = [l \in Links |-> IF l \in RdmaCapable THEN Root ELSE ""]
    /\ claimAllocations = EmptyCache
    /\ podAllocations = EmptyCache
    /\ mv = NoMove
    /\ rpc = NoCall
    /\ faulty = 0
    /\ mu = Unlocked
    /\ callers = [g \in Goroutines |-> Idle]
    /\ written = EmptyCache
    /\ claimsMu = Unlocked
    /\ tasks = [g \in Goroutines |-> NoTask]
    /\ routes \in RouteTables
    /\ ifaces \in SUBSET HostInterfaces
    /\ getDefaultGwIf(routes, ifaces, 1).ok
    /\ ifaceGw = getDefaultGwIf(routes, ifaces, 1).name
    /\ nlChannel = 0
    /\ publisher = [pc |-> "compute", computed |-> {}]
    /\ published = {}
    /\ start = Started
    /\ movers = [g \in Movers |-> NotMoving]

\* the kernel adds, removes or changes a link of the root namespace and
\* sends a link update to the subscription
LinkUpdate ==
    \E i \in HostInterfaces, change \in {"add", "remove", "flags"} :
        /\ nlChannel < MaxPending
        /\ change = "add" => i \notin ifaces
        /\ change # "add" => i \in ifaces
        /\ ifaces' = CASE change = "add" -> ifaces \cup {i}
                        [] change = "remove" -> ifaces \ {i}
                        [] OTHER -> ifaces
        /\ nlChannel' = nlChannel + 1
        /\ UNCHANGED <<routes, ifaceGw, publisher, published>>
        /\ DiscoveryOnly

\* the routes of the host change
RouteChange ==
    \E rs \in RouteTables \ {routes} :
        /\ routes' = rs
        /\ UNCHANGED <<ifaces, ifaceGw, nlChannel, publisher, published>>
        /\ DiscoveryOnly

\* one pass of the loop body up to the select: list the interfaces, build
\* resources.Devices, publish them when there are any
DiscoveryCycle ==
    \E listed \in {TRUE, FALSE}, lost \in {{}} \cup {{i.name} : i \in ifaces} :
        /\ publisher.pc = "compute"
        \* net.Interfaces() failed: ifaces is nil, the error is logged
        /\ ~listed => lost = {}
        /\ \E devices \in {Devices(IF listed THEN ifaces ELSE {}, ifaceGw, lost)} :
            /\ publisher' = [pc |-> "select", computed |-> devices]
            /\ published' = IF Cardinality(devices) > 0 THEN devices ELSE published
        /\ UNCHANGED <<ifaces, routes, ifaceGw, nlChannel>>
        /\ DiscoveryOnly

\* case <-nlChannel: a link update is received, time.Sleep(2 * time.Second)
\* begins
NotificationReceived ==
    /\ publisher.pc = "select"
    /\ nlChannel > 0
    /\ nlChannel' = nlChannel - 1
    /\ publisher' = [publisher EXCEPT !.pc = "sleep"]
    /\ UNCHANGED <<ifaces, routes, ifaceGw, published>>
    /\ DiscoveryOnly

\* the sleep is over: drain the channel, go round the loop
DebounceOver ==
    /\ publisher.pc = "sleep"
    /\ nlChannel' = Drain(nlChannel)
    /\ publisher' = [publisher EXCEPT !.pc = "compute"]
    /\ UNCHANGED <<ifaces, routes, ifaceGw, published>>
    /\ DiscoveryOnly

\* case <-ticker.C: the minute is over
TickerFired ==
    /\ publisher.pc = "select"
    /\ publisher' = [publisher EXCEPT !.pc = "compute"]
    /\ UNCHANGED <<ifaces, routes, ifaceGw, nlChannel, published>>
    /\ DiscoveryOnly

DiscoveryNext ==
    \/ LinkUpdate \/ RouteChange \/ DiscoveryCycle \/ NotificationReceived
    \/ DebounceOver \/ TickerFired

DiscoverySpec == DiscoveryInit /\ [][DiscoveryNext]_vars

----------------------------------------------------------------------------
(* Start: registration with the kubelet, then the discovery loop *)

\* mutant of PollCondition: any registration status ends the poll
PollCondition_AnyStatus(status) == status.set

\* the condition of wait.PollUntilContextTimeout: RegistrationStatus() is
\* nil (set = FALSE) or carries PluginRegistered
PollCondition(status) == IF ~status.set THEN FALSE ELSE status.PluginRegistered

\* Start is called: nothing is registered, no loop runs
StartInit ==
    /\ links = [l \in Links |->
                  [ns |-> Root, index |-> l, name |-> HostName(l), alias |-> "",
                   up |-> l \in UpAtStart]]
    /\ rdma = [l \in Links |-> IF l \in RdmaCapable THEN Root ELSE ""]
    /\ claimAllocations = EmptyCache
    /\ podAllocations = EmptyCache
    /\ mv = NoMove
    /\ rpc = NoCall
    /\ faulty = 0
    /\ mu = Unlocked
    /\ callers = [g \in Goroutines |-> Idle]
    /\ written = EmptyCache
    /\ claimsMu = Unlocked
    /\ tasks = [g \in Goroutines |-> NoTask]
    /\ routes \in RouteTables
    /\ ifaces = HostInterfaces
    /\ ifaceGw = << >>
    /\ nlChannel = 0
    /\ publisher = [pc |-> "none", computed |-> {}]
    /\ published = {}
    /\ start = [pc |-> "getDefaultGwIf", status |-> NotRegistered, polls |-> 0,
                cancelled |-> FALSE]
    /\ movers = [g \in Movers |-> NotMoving]

StartOnly ==
    UNCHANGED <<links, rdma, claimAllocations, podAllocations, mv, rpc, faulty, storeVars,
                movers>>

\* ifaceGw, err := getDefaultGwIf()
StartGateway ==
    /\ start.pc = "getDefaultGwIf"
    /\ \E r \in {getDefaultGwIf(routes, ifaces, 1)} :
          /\ start' = [start EXCEPT !.pc = IF r.ok THEN "kubeletplugin.Start" ELSE "error"]
          /\ ifaceGw' = IF r.ok THEN r.name ELSE ifaceGw
    /\ UNCHANGED <<ifaces, routes, nlChannel, publisher, published>>
    /\ StartOnly

\* stub.New and kubeletplugin.Start: either can fail
StartPlugin ==
    \E failed \in BOOLEAN :
        /\ start.pc = "kubeletplugin.Start"
        /\ start' = [start EXCEPT !.pc = IF failed THEN "error" ELSE "poll"]
        /\ UNCHANGED <<ifaces, routes, ifaceGw, nlChannel, publisher, published>>
        /\ StartOnly

\* the kubelet answers the registration
RegistrationProgress ==
    \E registered \in BOOLEAN :
        /\ start.pc \in {"poll", "started"}
        /\ ~PollCondition(start.status)
        /\ start.status # [set |-> TRUE, PluginRegistered |-> registered]
        /\ start' = [start EXCEPT !.status = [set |-> TRUE, PluginRegistered |-> registered]]
        /\ UNCHANGED <<ifaces, routes, ifaceGw, nlChannel, publisher, published>>
        /\ StartOnly

\* one run of the condition by wait.PollUntilContextTimeout: at once, then
\* every second while the context is not done; when it holds, Start does
\* go plugin.PublishResources(inCtx) and returns the plugin
StartPoll ==
    /\ start.pc = "poll"
    /\ start.polls < MaxPolls
    /\ start.polls = 0 \/ ~start.cancelled
    /\ IF PollCondition(start.status)
       THEN /\ start' = [start EXCEPT !.pc = "started", !.polls = 0]
            /\ publisher' = [publisher EXCEPT !.pc = "compute"]
       ELSE /\ start' = [start EXCEPT !.polls = @ + 1]
            /\ UNCHANGED publisher
    /\ UNCHANGED <<ifaces, routes, ifaceGw, nlChannel, published>>
    /\ StartOnly

\* the 30 seconds are over or the context is cancelled: the poll returns
\* the error of the context and Start returns it
StartPollFails ==
    /\ start.pc = "poll"
    /\ 0 < start.polls
    /\ start.polls = MaxPolls \/ start.cancelled
    /\ start' = [start EXCEPT !.pc = "error", !.polls = 0]
    /\ UNCHANGED <<ifaces, routes, ifaceGw, nlChannel, publisher, published>>
    /\ StartOnly

\* the context of Start is cancelled, or nriPlugin.Run returns and the
\* deferred cancel() runs
ContextCancelled ==
    /\ start.pc \in {"poll", "started"}
    /\ ~start.cancelled
    /\ start' = [start EXCEPT !.cancelled = TRUE]
    /\ UNCHANGED <<ifaces, routes, ifaceGw, nlChannel, publisher, published>>
    /\ StartOnly

StartNext ==
    \/ StartGateway \/ StartPlugin \/ RegistrationProgress \/ StartPoll \/ StartPollFails
    \/ ContextCancelled
    \/ LinkUpdate \/ DiscoveryCycle \/ NotificationReceived \/ DebounceOver \/ TickerFired

StartSpec == StartInit /\ [][StartNext]_vars

\* the goroutine of the loop is scheduled, the sleep ends, the ticker fires
StartFairSpec ==
    /\ StartSpec
    /\ WF_vars(DiscoveryCycle) /\ WF_vars(DebounceOver) /\ WF_vars(TickerFired)

----------------------------------------------------------------------------
(* Concurrent moves: each goroutine runs one move at a time, call by call *)

\* an interface the pod has of its own (the one of the pod network); it has
\* an interface index of the pod namespace
PodNative == NumLinks + 1

StepInit ==
    /\ links = [l \in Links \cup {PodNative} |->
                  IF l \in Links
                  THEN [ns |-> Root, index |-> l + 1, name |-> HostName(l), alias |-> "",
                        up |-> l \in UpAtStart]
                  ELSE [ns |-> NsPath(1), index |-> 2, name |-> "eth0", alias |-> "",
                        up |-> TRUE]]
    /\ rdma = [l \in Links |-> IF l \in RdmaCapable THEN Root ELSE ""]
    /\ claimAllocations = EmptyCache
    /\ podAllocations = EmptyCache
    /\ mv = NoMove
    /\ rpc = NoCall
    /\ faulty = 0
    /\ mu = Unlocked
    /\ callers = [g \in Goroutines |-> Idle]
    /\ written = EmptyCache
    /\ claimsMu = Unlocked
    /\ tasks = [g \in Goroutines |-> NoTask]
    /\ NoDiscovery
    /\ movers = [g \in Movers |-> NotMoving]

StepOnly ==
    UNCHANGED <<rdma, claimAllocations, podAllocations, mv, rpc, faulty, storeVars, discVars>>

\* the moves in progress are for different links
Free(l, g) == l \in Links /\ \A h \in Movers \ {g} : movers[h].pc # "done" => movers[h].link # l

\* hostdevice.MoveLinkIn(hostIfName, containerNs, ifName) is called
MoveLinkInCalled(g) ==
    \E hostIfName \in HostNames, ns \in NsPaths, ifName \in NewNames :
        /\ movers[g].pc = "done"
        /\ Free(LinkNamed(links, Root, hostIfName), g)
        /\ movers' = [movers EXCEPT ![g] =
                        [NotMoving EXCEPT !.op = "in", !.pc = InProgram[1],
                                          !.link = LinkNamed(links, Root, hostIfName),
                                          !.ns = ns, !.hostIfName = hostIfName,
                                          !.ifName = ifName]]
        /\ UNCHANGED links
        /\ StepOnly

\* hostdevice.MoveLinkOut(containerNs, ifName) is called
MoveLinkOutCalled(g) ==
    \E ns \in NsPaths, ifName \in NewNames :
        /\ movers[g].pc = "done"
        /\ Free(LinkNamed(links, ns, ifName), g)
        /\ movers' = [movers EXCEPT ![g] =
                        [NotMoving EXCEPT !.op = "out", !.pc = OutProgram[1],
                                          !.link = LinkNamed(links, ns, ifName),
                                          !.ns = ns, !.ifName = ifName]]
        /\ UNCHANGED links
        /\ StepOnly

\* the next netlink call of a move, or the next of its deferred calls
MoveStep(g) ==
    /\ movers[g].pc # "done"
    /\ \E r \in {Exec(links, movers[g])} :
          /\ links' = r.k
          /\ movers' = [movers EXCEPT ![g] = r.m]
    /\ StepOnly

StepNext == \E g \in Movers : MoveLinkInCalled(g) \/ MoveLinkOutCalled(g) \/ MoveStep(g)

StepSpec == StepInit /\ [][StepNext]_vars

----------------------------------------------------------------------------
(* Properties of the mover, checked under MoverSpec *)

\* the link an inject or release was about, as it is now
Moved == links[mv.link]

\* C1: whenever Inject returns an error and none of its rollback calls failed,
\* the interface is back in the root namespace under its original name with
\* its original administrative up/down flag, whichever step failed.
C1_FailedInjectRestoresInterface ==
    (mv.op = "Inject" /\ mv.res = "error" /\ ~mv.rb /\ mv.link # 0)
        => (Moved.ns = Root /\ Moved.name = mv.name /\ Moved.up = mv.wasUp)

\* C2: after Inject returns (success, failure, or failure with a failed
\* rollback) the interface is in the root or the target namespace and either
\* bears its original name or carries an alias equal to its original name.
C2_OriginalNameRecoverable ==
    (mv.op = "Inject" /\ mv.res \in {"ok", "error"} /\ mv.link # 0)
        => (/\ Moved.ns \in {Root, mv.ns}
            /\ (Moved.name = mv.name \/ Moved.alias = mv.name))

\* C3, as claimed: a successful Inject(N, ns, M) followed immediately by a
\* successful Release(ns, M) leaves the interface in the root namespace with
\* name N and the administrative state S it had before the Inject.
C3_RoundTripRestoresNameAndState ==
    (mv.op = "Release" /\ mv.res = "ok" /\ mv.paired)
        => (Moved.ns = Root /\ Moved.name = mv.hostName /\ Moved.up = mv.hostUp)

\* C3, as amended: a successful Inject(N, ns, M) followed immediately by a
\* successful Release(ns, M) leaves the interface in the root namespace with
\* name N and administratively down, whatever its state S was before.
C3_RoundTripRestoresNameLeavesDown ==
    (mv.op = "Release" /\ mv.res = "ok" /\ mv.paired)
        => (Moved.ns = Root /\ Moved.name = mv.hostName /\ ~Moved.up)

\* a round trip of an interface that was up, renamed inside the pod
C3_Witness ==
    /\ mv.op = "Release" /\ mv.res = "ok" /\ mv.paired
    /\ mv.hostUp /\ mv.newName # mv.hostName

----------------------------------------------------------------------------
(* Properties of the sandbox handlers, checked under Spec *)

\* C4: a SandboxStop for a workload leaves no entry for that workload in the
\* workload-keyed store when it returns, whether or not a device release
\* failed and whether or not the workload has a network namespace.
C4_StopEvictsWorkload ==
    rpc.op = "StopPodSandbox" => ~Get(podAllocations, rpc.uid).ok

\* a stop of a workload that had an entry, in which a release failed
C4_Witness ==
    /\ rpc.op = "StopPodSandbox" /\ rpc.hit
    /\ \E n \in 1..Len(rpc.moves) :
          rpc.moves[n].call = "MoveLinkOut" /\ rpc.moves[n].res = "error"

----------------------------------------------------------------------------
(* Properties of Prepare and Unprepare, checked under PrepareSpec *)

StoresUnchanged == UNCHANGED <<claimAllocations, podAllocations>>

\* C5: for a claim whose fetched object has no allocation result, Prepare
\* returns the 'not allocated' error and leaves both stores unchanged.
C5_NotAllocatedIsRejected ==
    [][(rpc'.op = "Prepare" /\ rpc'.claim.ok /\ ~rpc'.claim.allocated)
          => (rpc'.err = "not allocated" /\ StoresUnchanged)]_vars

\* an unallocated claim with a reservation was rejected while the stores held entries
C5_Witness ==
    /\ rpc.op = "Prepare" /\ rpc.claim.ok /\ ~rpc.claim.allocated
    /\ rpc.err = "not allocated"
    /\ rpc.claim.reservedFor # << >>
    /\ DOMAIN claimAllocations # {}

\* C6: Prepare fails with the 'got replaced' error, and stores nothing,
\* whenever the UID of the fetched claim object differs from the UID carried
\* by the claim reference of the request.
C6_ReplacedClaimIsRejected ==
    [][(rpc'.op = "Prepare" /\ rpc'.claim.ok /\ rpc'.claim.allocated
            /\ rpc'.claim.uid # rpc'.req.uid)
          => (rpc'.err = "got replaced" /\ StoresUnchanged)]_vars

\* the uids of the pod references of a reserved-for list
ReservedPods(reservedFor) ==
    {reservedFor[i].uid : i \in {n \in 1..Len(reservedFor) :
                                    reservedFor[n].resource = "pods"
                                    /\ reservedFor[n].apiGroup = ""}}

\* C7: after a successful Prepare the claim-keyed store maps the uid of the
\* claim to the claim's allocation and the workload-keyed store maps every pod
\* of the reserved-for list to the same allocation; references of any other
\* kind create no entry and do not make Prepare fail (an allocated claim that
\* is the one the request names is prepared whatever its references are).
C7_PrepareStoresAllocation ==
    [][/\ (rpc'.op = "Prepare" /\ rpc'.err = "")
            => (/\ Get(claimAllocations', rpc'.claim.uid)
                      = [allocation |-> rpc'.claim.allocation, ok |-> TRUE]
                /\ \A u \in ReservedPods(rpc'.claim.reservedFor) :
                      Get(podAllocations', u)
                          = [allocation |-> rpc'.claim.allocation, ok |-> TRUE]
                /\ DOMAIN podAllocations'
                      = DOMAIN podAllocations \cup ReservedPods(rpc'.claim.reservedFor))
       /\ (rpc'.op = "Prepare" /\ rpc'.claim.ok /\ rpc'.claim.allocated
                /\ rpc'.claim.uid = rpc'.req.uid)
            => rpc'.err = ""]_vars

\* a claim reserved for a pod and for something that is not a pod was prepared
C7_Witness ==
    /\ rpc.op = "Prepare" /\ rpc.err = ""
    /\ ReservedPods(rpc.claim.reservedFor) # {}
    /\ \E n \in 1..Len(rpc.claim.reservedFor) :
          rpc.claim.reservedFor[n].uid \notin ReservedPods(rpc.claim.reservedFor)

\* a configuration entry naming this driver restricts to other requests
RestrictedAway(allocation, result) ==
    \E n \in 1..Len(allocation.config) :
        /\ allocation.config[n].opaque
        /\ allocation.config[n].driver = DriverName
        /\ Len(allocation.config[n].requests) > 0
        /\ \A q \in 1..Len(allocation.config[n].requests) :
              allocation.config[n].requests[q] # result.request

FilteredDevices(allocation) ==
    LET kept == SelectSeq(allocation.results, LAMBDA r : ~RestrictedAway(allocation, r))
    IN  [i \in 1..Len(kept) |-> [PoolName |-> kept[i].pool, DeviceName |-> kept[i].device]]

\* C8: a result is excluded from the device list Prepare returns when a
\* configuration entry naming this driver carries a non-empty request list
\* that does not contain the result's request, and is included otherwise.
C8_DevicesAreFiltered ==
    (rpc.op = "Prepare" /\ rpc.err = "")
        => rpc.devices = FilteredDevices(rpc.claim.allocation)

\* C9: calling Prepare twice for the same claim with the same allocation
\* result leaves one entry under the claim key, holding that allocation, and
\* the same workload-keyed entries as after the first call.
C9_PrepareIsIdempotent ==
    [][(rpc'.op = "Prepare" /\ rpc'.again)
          => (/\ rpc'.err = ""
              /\ StoresUnchanged
              /\ Get(claimAllocations', rpc'.claim.uid)
                    = [allocation |-> rpc'.claim.allocation, ok |-> TRUE])]_vars

\* the second of two Prepare calls for a claim reserved for a pod
C9_Witness ==
    /\ rpc.op = "Prepare" /\ rpc.again /\ rpc.err = ""
    /\ ReservedPods(rpc.claim.reservedFor) # {}

\* C10: Unprepare for a claim that has no claim-keyed entry returns success
\* and leaves both stores unchanged.
C10_UnprepareMissIsNoOp ==
    [][(rpc'.op = "Unprepare" /\ ~Get(claimAllocations, rpc'.req.uid).ok)
          => (rpc'.err = "" /\ ~rpc'.found /\ StoresUnchanged)]_vars

\* an Unprepare missed while the stores held other entries
C10_Witness ==
    /\ rpc.op = "Unprepare" /\ ~rpc.found /\ rpc.err = ""
    /\ DOMAIN claimAllocations # {} /\ DOMAIN podAllocations # {}

----------------------------------------------------------------------------
(* Properties of the batch handlers, checked under BatchSpec *)

\* the uids of the request entries of a NodePrepareResources batch
BatchUIDs(claims) == {claims[i][1].uid : i \in 1..Len(claims)}
DistinctUIDs(claims) ==
    \A i, j \in 1..Len(claims) : i # j => claims[i][1].uid # claims[j][1].uid

\* the claims of a batch that the response reports without error
Succeeded(claims, resp) == SelectSeq(claims, LAMBDA in : resp[in[1].uid].error = "")

\* C11: the response of a batch of claims with distinct uids has an entry,
\* devices or an error, for every claim of the batch, and the claims that
\* fail change nothing for the others: the stores and the entries of the
\* other claims are those of the batch without the failed claims. Unprepare
\* answers every claim of its batch without error and removes their entries.
C11_BatchIsolatesFailures ==
    [][/\ (rpc'.op = "NodePrepareResources" /\ DistinctUIDs(rpc'.claims))
            => (/\ DOMAIN rpc'.resp = BatchUIDs(rpc'.claims)
                /\ \A u \in DOMAIN rpc'.resp :
                      rpc'.resp[u].error # "" => rpc'.resp[u].devices = << >>
                /\ \E alone \in {NodePrepareResources(claimAllocations, podAllocations,
                                       Succeeded(rpc'.claims, rpc'.resp))} :
                      /\ claimAllocations' = alone.ca
                      /\ podAllocations' = alone.pa
                      /\ \A u \in DOMAIN alone.resp : rpc'.resp[u] = alone.resp[u])
       /\ rpc'.op = "NodeUnprepareResources"
            => (/\ DOMAIN rpc'.resp = {rpc'.claims[i].uid : i \in 1..Len(rpc'.claims)}
                /\ \A u \in DOMAIN rpc'.resp : rpc'.resp[u].error = ""
                /\ claimAllocations'
                      = [u \in DOMAIN claimAllocations \ DOMAIN rpc'.resp |->
                            claimAllocations[u]]
                /\ podAllocations' = podAllocations)]_vars

\* a batch whose first claim failed and whose second claim was prepared
C11_Witness ==
    /\ rpc.op = "NodePrepareResources" /\ Len(rpc.claims) = 2
    /\ DistinctUIDs(rpc.claims)
    /\ rpc.resp[rpc.claims[1][1].uid].error # ""
    /\ rpc.resp[rpc.claims[2][1].uid].error = ""
    /\ rpc.resp[rpc.claims[2][1].uid].devices # << >>
    /\ rpc.claims[2][1].uid \in DOMAIN claimAllocations

----------------------------------------------------------------------------
(* Properties of the sandbox handlers of the driver (Spec) and of the plugin
   (PluginSpec) *)

\* the entries of the calls of an event that are moves by the Mover
MoverCalls(moves) ==
    {n \in 1..Len(moves) : moves[n].call \in {"MoveLinkIn", "inject", "MoveLinkOut", "release"}}

\* the name a moved device has inside the pod: the driver passes
\* result.Device twice, the plugin passes NewName
NameInPod(op, move) ==
    IF op \in {"RunPodSandbox", "StopPodSandbox"} THEN move.device ELSE move.newName

\* C12: when the inject of the k-th device of a SandboxCreate fails, inject
\* is invoked for no device after it, the call returns an error to the
\* runtime, and the devices 1..k-1 are still in the namespace of the pod.
C12_FirstInjectFailureAborts ==
    rpc.op \in {"RunPodSandbox", "Plugin.RunPodSandbox"}
        => \A k \in MoverCalls(rpc.moves) :
              rpc.moves[k].res = "error"
                => (/\ \A n \in MoverCalls(rpc.moves) : n <= k
                    /\ rpc.res = "error"
                    /\ \A n \in MoverCalls(rpc.moves) :
                          n < k => \E l \in Links :
                                     /\ links[l].ns = rpc.ns
                                     /\ links[l].name = NameInPod(rpc.op, rpc.moves[n]))

\* C13: SandboxStop returns success to the runtime for every workload and
\* every outcome of the device releases.
C13_StopReturnsSuccess ==
    rpc.op = "StopPodSandbox" => rpc.res = "ok"

\* a stop in which a release failed and left the device in the pod namespace
C13_Witness ==
    /\ rpc.op = "StopPodSandbox" /\ rpc.res = "ok"
    /\ \E n \in MoverCalls(rpc.moves) :
          /\ rpc.moves[n].res = "error"
          /\ \E l \in Links : links[l].ns = rpc.ns

\* C14: a SandboxStop for a workload with a stored allocation and a network
\* namespace invokes the release of the Mover for every device result of the
\* allocation, also for those after a result whose release failed.
C14_StopReleasesEveryDevice ==
    [][(rpc'.op = "StopPodSandbox" /\ rpc'.hit /\ rpc'.ns # "")
          => Cardinality(MoverCalls(rpc'.moves))
                = Len(Get(podAllocations, rpc'.uid).allocation.results)]_vars


\* C15: a sandbox event of a pod without an entry in podAllocations, and a
\* RunPodSandbox event without a namespace of type "network", return success
\* and call nothing of the kernel; such a RunPodSandbox changes neither store
C15_MissIsNoOp ==
    [][/\ (rpc'.op = "RunPodSandbox" /\ (~rpc'.hit \/ rpc'.ns = ""))
          => /\ rpc'.res = "ok" /\ rpc'.moves = << >>
             /\ links' = links /\ rdma' = rdma
             /\ claimAllocations' = claimAllocations
             /\ podAllocations' = podAllocations
       /\ (rpc'.op = "StopPodSandbox" /\ ~rpc'.hit)
          => /\ rpc'.res = "ok" /\ rpc'.moves = << >>
             /\ links' = links /\ rdma' = rdma]_vars

\* a RunPodSandbox event without a network namespace for a pod with devices
C15_Witness ==
    /\ rpc.op = "RunPodSandbox" /\ rpc.hit /\ rpc.ns = ""
    /\ Get(podAllocations, rpc.uid).ok
    /\ Len(Get(podAllocations, rpc.uid).allocation.results) > 0


\* C16: every allocation stored in podAllocations is also the allocation of
\* some entry of claimAllocations
C16_PodEntryHasClaimEntry ==
    \A p \in DOMAIN podAllocations :
        \E c \in DOMAIN claimAllocations : claimAllocations[c] = podAllocations[p]


\* goroutines between Lock/RLock and the deferred unlock
Holding == {g \in Goroutines : callers[g].pc \in {"locked", "storing", "unlock"}}
Writing == {g \in Holding : callers[g].op \in {"Add", "Remove"}}

\* C17: a goroutine inside Add or Remove is the only one inside the storage,
\* and a Get returns what the last completed Add or Remove of its key left:
\* the whole allocation of that Add, or not found; never a part of one
C17_StorageLinearizable ==
    [][/\ \A g \in Writing : Holding = {g}
       /\ \A g \in Goroutines :
             (callers[g].pc = "locked" /\ callers[g].op = "Get"
              /\ callers'[g].pc = "unlock")
             => callers'[g].out = Get(written, callers[g].uid)]_vars

\* a Get returned an allocation while another goroutine waits in Add's Lock
C17_Witness ==
    \E g, h \in Goroutines :
        /\ callers[g].op = "Get" /\ callers[g].pc = "unlock" /\ callers[g].out.ok
        /\ callers[h].op = "Add" /\ callers[h].pc = "lock"
        /\ callers[h].allocation # callers[g].out.allocation


\* the steps of MoveLinkIn after the move into the target namespace and up to
\* the rename to the name asked for
AfterMoveBeforeRename == {"enter target", "resolve in target", "set alias", "rename to final"}

\* C18: when Inject fails after the move into the target namespace and before
\* the rename to the final name has succeeded, the device is in the target
\* namespace under its temporary name, its alias the original host name
C18_FailedInjectLeavesTempInTarget ==
    (mv.op = "Inject" /\ mv.res = "error" /\ mv.link # 0
     /\ mv.step \in AfterMoveBeforeRename)
        => (/\ Moved.ns = mv.ns
            /\ Moved.name = TempName([index |-> mv.link])
            /\ Moved.alias = mv.name)


\* a Release that failed at the rename to the alias in the root namespace
FinalRenameFailed ==
    mv.op = "Release" /\ mv.res = "error" /\ mv.step = "rename to original" /\ mv.link # 0

\* the device is where a Release(mv.ns, its name) finds it, in the
\* administrative state it had before the Release
BackInTarget ==
    /\ Moved.ns = mv.ns /\ Moved.up = mv.wasUp
    /\ LinkNamed(links, mv.ns, Moved.name) = mv.link

C20_ReleasedIsHomeAndDown ==
    (mv.op = "Release" /\ mv.res = "ok")
        => (/\ mv.link # 0
            /\ Moved.ns = Root
            /\ Moved.name = Moved.alias /\ Moved.alias = HostName(mv.link)
            /\ ~Moved.up)

\* a successful Release of an interface that was up under another name in
\* the pod
C20_Witness ==
    /\ mv.op = "Release" /\ mv.res = "ok" /\ mv.wasUp /\ mv.name = "eth0"
    /\ Moved.ns = Root /\ ~Moved.up


----------------------------------------------------------------------------
(* Properties of the discovery loop, checked under DiscoverySpec *)

\* C21: the link updates that arrive while the loop waits after the first
\* one of a burst are consumed by the wait: when the wait is over none is
\* left to trigger a recomputation after the one that follows the wait
C21_BurstIsOneRecomputation ==
    [][(publisher.pc = "sleep" /\ publisher'.pc = "compute") => nlChannel' = 0]_vars


\* C22: after every pass of the loop the set published to the kubelet is the
\* set of devices computed in that pass, the empty set included
C22_PublishedIsComputed ==
    [][(publisher.pc = "compute" /\ publisher'.pc = "select")
          => published' = publisher'.computed]_vars


\* the interfaces that carry a default route (Dst nil) of the table rs
DefaultRouteInterfaces(rs) == {rs[n].link : n \in {m \in 1..Len(rs) : rs[m].default}}

\* the names of the interfaces of ifs that are never to be published
Excluded(ifs, rs) ==
    DefaultRouteInterfaces(rs)
    \cup {i.name : i \in {j \in ifs : j.loopback \/ j.veth \/ ~IsDNS1123Label(j.name)}}

\* C23: the set a pass of the loop publishes holds no interface that carries
\* the default route of the node when the pass runs, no loopback interface,
\* no veth and no interface whose name is not a DNS label; on a host with
\* eth0 (default route), lo and net1 it is {net1}
C23_PublishedExcludesGatewayAndLoopback ==
    [][(publisher.pc = "compute" /\ publisher'.pc = "select")
          => /\ publisher'.computed \cap Excluded(ifaces, routes) = {}
             /\ published' \cap Excluded(ifaces, routes) = {}
             /\ (/\ Names(ifaces) = {Eth0, <<"l", "o">>, Net1}
                 /\ DefaultRouteInterfaces(routes) = {Eth0}
                 /\ publisher'.computed # {})
                => published' = {Net1}]_vars


----------------------------------------------------------------------------
(* More properties of the mover, checked under MoverSpec *)

\* C24: when Inject fails at the rename to the temporary name, after the
\* interface was set down, the interface has its original name in the root
\* namespace and is up again if and only if it was up before the Inject
C24_FailedTempRenameRestores ==
    (mv.op = "Inject" /\ mv.res = "error" /\ mv.step = "rename to temporary"
     /\ mv.link # 0)
        => (Moved.ns = Root /\ Moved.name = mv.name /\ Moved.up = mv.wasUp)


\* C25: when Release fails inside the target namespace after the device was
\* set down (at the rename to the temporary name or at the move to the root
\* namespace), the device is in the target namespace under the name Release
\* was called with, and up again unless it was down before the Release
C25_FailedReleaseRestoresInTarget ==
    (mv.op = "Release" /\ mv.res = "error" /\ mv.link # 0
     /\ mv.step \in {"rename to temporary", "move to root"})
        => (Moved.ns = mv.ns /\ Moved.name = mv.name /\ Moved.up = mv.wasUp)


\* C27: an Inject or Release in which a rollback call failed reports an
\* error of a kind of its own, not the error of a failure whose rollback
\* worked
C27_FailedRollbackIsReported ==
    (mv.op \in {"Inject", "Release"} /\ mv.rb) => mv.res \notin {"ok", "error"}


----------------------------------------------------------------------------
(* More properties of the sandbox handlers, checked under Spec *)

IsMoverCall(e) == e.call \in {"MoveLinkIn", "MoveLinkOut"}

\* C29: a sandbox event moves the devices of the allocation one after the
\* other in the order of allocation.Devices.Results: the n-th move it makes
\* is the move of the n-th result
C29_ResultsInOrder ==
    [][(rpc'.op \in {"RunPodSandbox", "StopPodSandbox"} /\ rpc'.hit /\ rpc'.ns # "")
          => \E calls \in {SelectSeq(rpc'.moves, IsMoverCall)},
                results \in {Get(podAllocations, rpc'.uid).allocation.results} :
                /\ Len(calls) <= Len(results)
                /\ \A n \in 1..Len(calls) : calls[n].device = results[n].device]_vars

\* a RunPodSandbox that moved two devices
C29_Witness ==
    /\ rpc.op = "RunPodSandbox" /\ rpc.res = "ok"
    /\ Len(SelectSeq(rpc.moves, IsMoverCall)) = 2
    /\ \A l \in Links : links[l].ns = rpc.ns


\* a failed lookup or move of the RDMA companion of a device
RdmaFailed(e) == e.call \in {"GetRdmaDeviceForNetdevice", "MoveRDMALinkIn"} /\ e.res = "error"

\* C30: in RunPodSandbox a failed lookup or move of the RDMA companion of a
\* device is not returned (an error returned is the error of a MoveLinkIn)
\* and the next device result is still moved
C30_RdmaIsBestEffort ==
    (rpc.op = "RunPodSandbox" /\ Get(podAllocations, rpc.uid).ok)
        => \A n \in 1..Len(rpc.moves) :
              RdmaFailed(rpc.moves[n])
              => /\ rpc.res # "ok"
                    => \E m \in 1..Len(rpc.moves) :
                          rpc.moves[m].call = "MoveLinkIn" /\ rpc.moves[m].res # "ok"
                 /\ \E results \in {Get(podAllocations, rpc.uid).allocation.results} :
                       \/ rpc.moves[n].device = results[Len(results)].device
                       \/ (n < Len(rpc.moves) /\ rpc.moves[n + 1].call = "MoveLinkIn")

\* the RDMA companion of the first device could not be attached, and the
\* second device was moved into the pod
C30_Witness ==
    /\ rpc.op = "RunPodSandbox" /\ rpc.res = "ok" /\ Len(rpc.moves) > 2
    /\ RdmaFailed(rpc.moves[2])
    /\ rpc.moves[3].call = "MoveLinkIn" /\ rpc.moves[3].res = "ok"

\* the namespace a move makes its next call in, and the one it moves to
CallNs(m) == IF m.op = "in" THEN Root ELSE m.ns
MoveTarget(m) == IF m.op = "in" THEN m.ns ELSE Root

\* C26: a successful MoveLinkIn made its calls in this order: set down before
\* the renames, the temporary name before the move to the target namespace,
\* the alias before the final name, up after the final name; and no link is
\* ever in a pod namespace under a final name without the host name as alias.
C26_InjectOrder ==
    /\ \A g \in Movers :
          movers[g].op = "in" /\ movers[g].pc = "done" /\ movers[g].res = "ok" =>
              LET At(c) == Pos(movers[g].log, c) IN
              /\ 0 < At("I_SetDown")
              /\ At("I_SetDown") < At("I_TmpSetName")
              /\ At("I_TmpSetName") < At("I_SetNsFd")
              /\ At("I_SetNsFd") < At("I_SetAlias")
              /\ At("I_SetAlias") < At("I_SetName")
              /\ At("I_SetName") < At("I_SetUp")
    /\ \A g \in Movers :
          /\ movers[g].op = "in"
          /\ links[movers[g].link].ns = movers[g].ns
          /\ links[movers[g].link].name = movers[g].ifName
          => links[movers[g].link].alias # ""

\* a MoveLinkIn returned success and its link is in the pod under the name
\* asked for, up, while another move is under way
C26_Witness ==
    \E g \in Movers, h \in Movers :
        /\ movers[g].op = "in" /\ movers[g].pc = "done" /\ movers[g].res = "ok"
        /\ links[movers[g].link].ns = movers[g].ns
        /\ links[movers[g].link].name = movers[g].ifName
        /\ links[movers[g].link].alias = movers[g].hostIfName
        /\ links[movers[g].link].up
        /\ movers[h].pc # "done"

\* C28: when a move is about to give its link the temporary name, no other
\* link of that namespace has this name, and when it is about to move the
\* link under the temporary name, no link of the namespace it moves to has it.
C28_TempNamesNeverCollide ==
    \A g \in Movers :
        /\ movers[g].pc \in {"I_TmpSetName", "O_TmpSetName"} =>
              ~NameTaken(links, CallNs(movers[g]), TempName(movers[g].hostDev),
                         movers[g].link)
        /\ movers[g].pc \in {"I_SetNsFd", "O_SetNsFd"} =>
              ~NameTaken(links, MoveTarget(movers[g]), movers[g].tempDevName,
                         movers[g].link)

----------------------------------------------------------------------------
(* Prepare followed by the sandbox events, checked under Spec *)

----------------------------------------------------------------------------
(* Lock scope, checked under HandlerSpec *)

\* the goroutines that hold a lock
Holders(m) == m.r \cup (IF m.w = 0 THEN {} ELSE {m.w})

\* C32: a goroutine that holds the lock of a store is at the map statement
\* of a storage method of that store or at its deferred unlock; it is inside
\* no call of the API server, the mover, the RDMA library or the publisher
C32_LockScope ==
    \A g \in Goroutines, store \in {"pods", "claims"} :
        g \in Holders(LockOf(store))
            => /\ tasks[g].handler # "none"
               /\ ~tasks[g].calling
               /\ Instr(tasks[g]).store = store
               /\ Instr(tasks[g]).i \in {"Store", "Load", "Delete", "Unlock", "RUnlock"}

\* a StopPodSandbox is inside MoveLinkOut while another goroutine holds the
\* write lock of podAllocations
C32_Witness ==
    \E g, h \in Goroutines :
        /\ tasks[g].handler = "StopPodSandbox" /\ tasks[g].calling
        /\ Instr(tasks[g]).what = "MoveLinkOut"
        /\ mu.w = h

----------------------------------------------------------------------------
(* Start and the end of the loop, checked under StartSpec / StartFairSpec *)

\* C33: the loop runs, and a device set is published, only after the poll
\* of Start saw PluginRegistered; a Start that returned an error (no
\* registration before the timeout or the cancellation, or a failure before
\* the poll) has started no loop
C33_PublishAfterRegistration ==
    /\ (publisher.pc # "none" \/ published # {})
          => /\ start.pc = "started"
             /\ start.status.set /\ start.status.PluginRegistered
    /\ start.pc = "error" => (publisher.pc = "none" /\ published = {})

\* a device set was published after Start saw the registration
C33_Witness ==
    /\ published # {} /\ start.pc = "started" /\ start.status.PluginRegistered

\* C40: once the context of a running loop is cancelled the loop returns
C40_CancelledLoopTerminates ==
    (start.cancelled /\ publisher.pc # "none") ~> (publisher.pc = "returned")

----------------------------------------------------------------------------
(* Removal of entries, checked under Spec *)

\* C34: an Unprepare removes the entry of its claim from claimAllocations
\* and nothing else from either store; podAllocations loses an entry only in
\* a StopPodSandbox (a RunPodSandbox that panics ends the process, and its
\* memory with it: that is no removal by a handler)
C34_UnprepareFrame ==
    [][/\ rpc'.op = "Unprepare"
          => /\ claimAllocations' = Remove(claimAllocations, rpc'.req.uid)
             /\ podAllocations' = podAllocations
       /\ ~(DOMAIN podAllocations \subseteq DOMAIN podAllocations')
          => \/ rpc'.op = "StopPodSandbox" /\ rpc'.hit
             \/ rpc'.op = "RunPodSandbox" /\ rpc'.res = "panic"]_vars

\* a prepared claim was unprepared while another claim and a pod still have
\* their entries
C34_Witness ==
    /\ rpc.op = "Unprepare" /\ rpc.found
    /\ rpc.req.uid \notin DOMAIN claimAllocations
    /\ claimAllocations # EmptyCache
    /\ podAllocations # EmptyCache

----------------------------------------------------------------------------
(* Two claims of one pod, checked under SharedSpec *)

\* the devices of the results of an allocation
DevicesOf(allocation) ==
    {allocation.results[i].device : i \in 1..Len(allocation.results)}

\* C36: when a claim is prepared right after another claim, both reserved
\* for a pod, the entry of the pod in podAllocations has the devices of both
\* claims
C36_BothClaimsReachable ==
    [][(/\ rpc.op = "Prepare" /\ rpc.err = ""
        /\ rpc'.op = "Prepare" /\ rpc'.err = ""
        /\ rpc.claim.uid # rpc'.claim.uid)
       => \A uid \in ReservedPods(rpc.claim.reservedFor)
                       \cap ReservedPods(rpc'.claim.reservedFor) :
             /\ uid \in DOMAIN podAllocations'
             /\ DevicesOf(rpc.claim.allocation) \cup DevicesOf(rpc'.claim.allocation)
                    \subseteq DevicesOf(podAllocations'[uid])]_vars

----------------------------------------------------------------------------
(* The key of a claim, checked under PrepareSpec *)

\* C37: an Unprepare that follows a successful Prepare of the same request
\* leaves no entry under the key the Prepare stored the claim under
C37_SameClaimKey ==
    [][(/\ rpc.op = "Prepare" /\ rpc.err = ""
        /\ rpc'.op = "Unprepare" /\ rpc'.req = rpc.req)
       => rpc.claim.uid \notin DOMAIN claimAllocations']_vars

----------------------------------------------------------------------------
(* The failed re-resolve of MoveLinkIn, checked under MoverSpec *)

\* C38: an inject whose last LinkByName inside the pod namespace failed
\* returns an error, and the link is back in the root namespace under its
\* original name and in its original administrative state
C38_ReResolveRollsBack ==
    (mv.op = "Inject" /\ mv.step = "re-resolve")
        => /\ mv.res = "error"
           /\ links[mv.link].ns = Root
           /\ links[mv.link].name = mv.name
           /\ links[mv.link].up = mv.wasUp

----------------------------------------------------------------------------
(* The direction of the moves of StopPodSandbox, checked under Spec *)

\* C39: a StopPodSandbox moves nothing into a pod namespace: a network
\* interface or an RDMA device that is in a pod namespace after the event
\* was there before it
C39_StopMovesOutOnly ==
    [][rpc'.op = "StopPodSandbox"
       => \A l \in Links :
             /\ links'[l].ns # Root => links'[l].ns = links[l].ns
             /\ rdma'[l] \notin {Root, ""} => rdma'[l] = rdma[l]]_vars

\* the half of it about the network interfaces
StopMovesNoLinkIn ==
    [][rpc'.op = "StopPodSandbox"
       => \A l \in Links : links'[l].ns # Root => links'[l].ns = links[l].ns]_vars

----------------------------------------------------------------------------
(* The defaults of parseNetdevices, checked under ParseSpec *)

\* C35: every netdevice parseNetdevices returns has a NewName, the Name when
\* the annotation gave none, and an address without prefix has the prefix 32
\* (IPv4) or 128 (IPv6)
C35_DefaultsApplied ==
    (rpc.op = "parseNetdevices" /\ ~rpc.out.err)
        => /\ Len(rpc.out.netdevices) = Len(rpc.annotation.netdevices)
           /\ \A i \in 1..Len(rpc.out.netdevices) :
                 LET in == rpc.annotation.netdevices[i]
                     n == rpc.out.netdevices[i]
                 IN  /\ n.newName # ""
                     /\ in.newName = "" => n.newName = in.name
                     /\ (in.address # "" /\ in.prefix = 0)
                           => n.prefix = IF ParseIP(in.address) = "v6" THEN 128 ELSE 32

====
